---- MODULE Spec2Model ----
(***************************************************************************)
(* Model of the ets-noc health-probing and status-aggregation engine:      *)
(*   backend/internal/monitor/pinger.go          (Pinger: tick loop,       *)
(*                                                checkDevices, tasks)     *)
(*   backend/internal/monitor/status_computer.go (ComputePropertyStatus)   *)
(*   backend/internal/storage/redis.go           (status / history store)  *)
(*   backend/internal/api/handlers.go            (on-demand site status,   *)
(*                                                dashboard)               *)
(*   backend/cmd/worker/main.go                  (the worker process)      *)
(*                                                                         *)
(* The specifications share the variables:                                 *)
(*   Spec     the scheduler: Start's select loop, one checkDevices cycle   *)
(*            at a time, one goroutine per device gated by the semaphore,  *)
(*            the WaitGroup barrier, the per-property aggregation.         *)
(*   SpecAgg  ComputePropertyStatus applied to bounded inputs (device      *)
(*            list, store content, failing lookups).                       *)
(*   SpecApi  handleGetPropertyStatus beside the aggregation loop of a     *)
(*            cycle.                                                       *)
(*   SpecGate the notification cooldown operations under a clock.          *)
(*   SpecTTL  status writes and lookups with key expiry.                   *)
(*   SpecHist history appends, pruning and range queries.                  *)
(*   SpecPing pingDevice applied to bounded probe outcomes.                *)
(*   SpecMain the worker's main: settings, NewPinger, Start in a           *)
(*            goroutine, the shutdown signal, process exit.                *)
(*   SpecStop a caller that calls Start once and Stop repeatedly.          *)
(*   SpecLive the scheduler with one verdict per device, under weak        *)
(*            fairness of Start's loop and of the device goroutines.       *)
(*   SpecCycle the scheduler without Stop and cancellation, under the      *)
(*            same fairness.                                               *)
(*   SpecDash handleDashboard beside handleGetPropertyStatus, the          *)
(*            aggregation loop and the clock.                              *)
(*   SpecNotify two notifiers calling the cooldown operations.             *)
(***************************************************************************)
EXTENDS Integers, Sequences, FiniteSets, TLC

\* ------------------------------------------------------------------ bounds
NumDevices == 3
NumSites == 2
MaxConcurrent == 2
MaxCycles == 2
MaxFanOuts == 1
MaxSiteDevices == 4
MaxFaults == 1
TicksPerSecond == 2
MaxClock == 3
MaxCooldown == 1
MaxTTLs == 2
MaxWrites == 2
MaxRequests == 2
NumNotifiers == 2
MaxSends == 2
MaxAppends == 2
StepDays == 30
MaxSteps == 4
MaxProbes == 2
MaxRetries == 2
MaxRtt == 3
RttPerMs == 2

\* Program constants.
StatusTTL == 600          \* seconds: 10*time.Minute of the status keys
HardRetentionDays == 90   \* AddDate(0, 0, -90) in AddDeviceHistory
Day == 86400              \* seconds in one day of AddDate

Devices == 1..NumDevices
Sites == 1..NumSites

\* The catalog rows (devices table): owning property and criticality flag.
PropertyID(d) == ((d - 1) % NumSites) + 1
IsCritical(d) == d = 1

Verdicts == {"online", "offline"}

\* Notification kinds and the (property, event type) pairs of the gate.
EventTypes == {"down", "recovered"}
Pairs == Sites \X EventTypes

VARIABLES
  pc,            \* position of Pinger.Start / checkDevices
  ctxDone,       \* the external context has been cancelled
  stopClosed,    \* stopChan has been closed by Stop()
  tickPending,   \* a tick is buffered in ticker.C (capacity 1)
  cycles,        \* number of checkDevices calls made so far
  fanOuts,       \* number of those calls that found active devices
  devices,       \* the snapshot returned by ListActiveDevices (ids, in order)
  spawned,       \* number of goroutines the fan-out loop has started
  task,          \* per device: position and probe verdict of its goroutine
  sem,           \* number of tokens in the semaphore channel
  wg,            \* counter of checkDevices' local sync.WaitGroup
  remaining,     \* properties the aggregation loop has not visited yet
  statusKey,     \* redis device:status:<id>          (point key)
  allDeviceStatus, \* redis hash all_device_status
  historyLen,    \* redis device:history:<id>         (number of points)
  propertyKey,   \* redis property:status:<id>        (point key)
  written,       \* store writes that succeeded in the current cycle
  failed,        \* store calls that failed in the current cycle
  inFlightAtCancel, \* devices holding a semaphore slot when Stop/cancel came
  drained,       \* writes made by the devices of inFlightAtCancel
  faults,        \* number of transient store errors injected so far
  aggInput,      \* SpecAgg: the device list handed to ComputePropertyStatus
  aggFail,       \* SpecAgg: ids whose GetDeviceStatus call fails
  aggResult,     \* SpecAgg: what ComputePropertyStatus returned
  apiResult,     \* SpecApi: the last response of handleGetPropertyStatus
  now,           \* wall clock, in ticks of 1/TicksPerSecond s since model start
  lastNotification, \* redis hashes property:last_notification:<id>, per field
  gateOp,        \* SpecGate: the last cooldown call and what it returned
  setAt,         \* SpecGate: instant of the last successful SetLastNotification
  statusExp,     \* instant at which device:status:<id> expires
  propertyExp,   \* instant at which property:status:<id> expires
  allPropertyStatus, \* redis hash all_property_status
  devSetAt,      \* instant of the last successful SetDeviceStatus, per device
  propSetAt,     \* instant of the last successful SetPropertyStatus
  lookup,        \* SpecTTL: the last status lookup and what it found
  writes,        \* SpecTTL: number of status writes made by the callers
  history,       \* redis sorted sets device:history:<id>: the members
  retentionDays, \* settings.history_retention_days
  histOp,        \* SpecHist: the last history call and what it returned
  appends,       \* SpecHist: number of AddDeviceHistory calls made
  probe,         \* SpecPing: the last pingDevice call and what it returned
  probes,        \* SpecPing: number of pingDevice calls made
  mainPc,        \* position of the goroutine that owns the Pinger (main)
  settings,      \* the settings row main read at startup
  maxConcurrent, \* Pinger.maxConcurrent, as given to NewPinger
  dashResult,    \* SpecDash: the last response of handleDashboard
  notifier,      \* SpecNotify: position of each notifier process
  sent           \* SpecNotify: instants at which a notification was sent

schedVars == <<pc, ctxDone, stopClosed, tickPending, cycles, fanOuts, devices,
               spawned,
               task, sem, wg, remaining, allDeviceStatus, historyLen,
               propertyKey, written, failed, inFlightAtCancel, drained,
               faults>>
aggVars == <<aggInput, aggFail, aggResult>>
\* Variables of the probe, worker-process, dashboard and notifier
\* specifications.
pingVars == <<probe, probes>>
mainVars == <<mainPc, settings, maxConcurrent>>
dashVars == <<dashResult>>
notifyVars == <<notifier, sent>>
frontVars == <<pingVars, mainVars, dashVars, notifyVars>>
\* Variables of the API and store specifications.
gateVars == <<lastNotification, gateOp, setAt>>
ttlVars == <<statusExp, propertyExp, allPropertyStatus, devSetAt, propSetAt>>
histVars == <<history, retentionDays, histOp, appends>>
storeVars == <<now, gateVars, ttlVars, lookup, writes, histVars>>
extVars == <<apiResult, storeVars>>
otherVars == <<aggVars, frontVars, extVars>>
vars == <<schedVars, statusKey, otherVars>>

\* --------------------------------------------------------- status_computer
\* models.PropertyStatus without the LastCheck timestamp.
NoPropertyStatus ==
  [Status |-> "none", OnlineCount |-> 0, OfflineCount |-> 0, TotalCount |-> 0,
   CriticalOffline |-> FALSE]

\* RedisStore.GetDeviceStatus: redis.Nil -> "not found" error; any other
\* error (transport failure, cancelled context) -> that error; else the entry.
GetDeviceStatus(key, failing, id) ==
  IF id \in failing THEN [err |-> "error", Status |-> "none"]
  ELSE IF key[id] = "none" THEN [err |-> "notfound", Status |-> "none"]
  ELSE [err |-> "nil", Status |-> key[id]]

\* First loop of ComputePropertyStatus: one GetDeviceStatus call per device;
\* an entry is put in the deviceStatuses map only when err == nil.
\* m maps a device id to its status, "none" meaning no map entry;
\* calls counts the lookups made.
RECURSIVE LoadStatuses(_, _, _, _, _)
LoadStatuses(devs, i, key, failing, acc) ==
  IF i > Len(devs) THEN acc
  ELSE LET r == GetDeviceStatus(key, failing, devs[i].ID)
           m2 == IF r.err = "nil"
                 THEN [acc.m EXCEPT ![devs[i].ID] = r.Status]
                 ELSE acc.m
       IN LoadStatuses(devs, i + 1, key, failing,
                       [m |-> m2, calls |-> acc.calls + 1])

\* The branch test of the counting loop: ok && status.Status == "online".
CountsOnline(m, id) == m[id] = "online"

\* Mutant of MarkCritical: the critical flag of an offline device is dropped.
MarkCriticalNever(criticalOffline, dev) == criticalOffline

\* if device.IsCritical { criticalOffline = true }, in the offline branch.
MarkCritical(criticalOffline, dev) == criticalOffline \/ dev.IsCritical

\* Mutant of CountLoop: a device without a map entry is skipped instead of
\* being counted offline.
RECURSIVE CountLoopSkipMissing(_, _, _, _)
CountLoopSkipMissing(devs, i, m, acc) ==
  IF i > Len(devs) THEN acc
  ELSE IF m[devs[i].ID] = "none"
       THEN CountLoopSkipMissing(devs, i + 1, m, acc)
       ELSE IF m[devs[i].ID] = "online"
            THEN CountLoopSkipMissing(devs, i + 1, m,
                   [acc EXCEPT !.online = @ + 1, !.on = @ \cup {i}])
            ELSE CountLoopSkipMissing(devs, i + 1, m,
                   [acc EXCEPT !.offline = @ + 1, !.off = @ \cup {i},
                               !.criticalOffline = @ \/ devs[i].IsCritical])

\* Second loop of ComputePropertyStatus: online++ or offline++ (and
\* criticalOffline) per device; on / off record the indices that took each
\* branch.
RECURSIVE CountLoop(_, _, _, _)
CountLoop(devs, i, m, acc) ==
  IF i > Len(devs) THEN acc
  ELSE IF CountsOnline(m, devs[i].ID)
       THEN CountLoop(devs, i + 1, m,
              [acc EXCEPT !.online = @ + 1, !.on = @ \cup {i}])
       ELSE CountLoop(devs, i + 1, m,
              [acc EXCEPT !.offline = @ + 1, !.off = @ \cup {i},
                          !.criticalOffline = MarkCritical(@, devs[i])])

\* Mutant of Rollup: the critical flag does not force red.
RollupCriticalIgnored(offline, total, criticalOffline) ==
  IF offline = total THEN "red"
  ELSE IF offline > 0 THEN "yellow"
  ELSE "green"

\* Status logic: red > yellow > green.
Rollup(offline, total, criticalOffline) ==
  IF offline = total \/ criticalOffline THEN "red"
  ELSE IF offline > 0 THEN "yellow"
  ELSE "green"

\* ComputePropertyStatus past the len(devices) == 0 test: the two loops and
\* the status logic. st is the PropertyStatus returned; calls, on, off
\* describe the execution (lookups made, branch taken per index).
ComputeFromLookups(devs, key, failing) ==
  LET ids == {devs[i].ID : i \in 1..Len(devs)}
      ld == LoadStatuses(devs, 1, key, failing,
              [m |-> [id \in ids |-> "none"], calls |-> 0])
      c == CountLoop(devs, 1, ld.m,
              [online |-> 0, offline |-> 0, criticalOffline |-> FALSE,
               on |-> {}, off |-> {}])
  IN [st |-> [Status |-> Rollup(c.offline, Len(devs), c.criticalOffline),
              OnlineCount |-> c.online,
              OfflineCount |-> c.offline,
              TotalCount |-> Len(devs),
              CriticalOffline |-> c.criticalOffline],
      calls |-> ld.calls, on |-> c.on, off |-> c.off]

\* Mutant of ComputePropertyStatus: the len(devices) == 0 return is missing.
ComputePropertyStatusNoGuard(devs, key, failing) ==
  ComputeFromLookups(devs, key, failing)

\* StatusComputer.ComputePropertyStatus.
ComputePropertyStatus(devs, key, failing) ==
  IF Len(devs) = 0
  THEN [st |-> [NoPropertyStatus EXCEPT !.Status = "green"],
        calls |-> 0, on |-> {}, off |-> {}]
  ELSE ComputeFromLookups(devs, key, failing)

NoResult == [st |-> NoPropertyStatus, calls |-> 0, on |-> {}, off |-> {}]

\* No HTTP request has been answered yet.
NoResponse == [code |-> 0, p |-> 0, st |-> NoPropertyStatus]

\* The variables of the API and store specifications before any of their
\* operations has run.
\* redis.Nil: the hash field does not exist.
Nil == -1

NoGateOp == [op |-> "none", p |-> 0, e |-> "none", cd |-> 0, ok |-> FALSE,
             err |-> FALSE]

NoLookup == [op |-> "none", id |-> 0, at |-> Nil, found |-> {},
             st |-> "none", ok |-> FALSE]

\* No status key has been written.
TTLIdle ==
  /\ statusExp = [d \in Devices |-> Nil]
  /\ propertyExp = [p \in Sites |-> Nil]
  /\ allPropertyStatus = [p \in Sites |-> NoPropertyStatus]
  /\ devSetAt = [d \in Devices |-> Nil]
  /\ propSetAt = [p \in Sites |-> Nil]

NoHistOp == [op |-> "none", id |-> 0, start |-> 0, end |-> 0, ok |-> FALSE,
             result |-> <<>>]

\* No history point has been stored; the retention setting has its default.
HistIdle ==
  /\ history = [d \in Devices |-> {}]
  /\ retentionDays = HardRetentionDays
  /\ histOp = NoHistOp
  /\ appends = 0

StoreIdle ==
  /\ now = 0
  /\ lastNotification = [q \in Pairs |-> Nil]
  /\ gateOp = NoGateOp
  /\ setAt = [q \in Pairs |-> Nil]
  /\ lookup = NoLookup
  /\ writes = 0

\* No probe has been made outside a cycle.
NoProbe == [DeviceID |-> 0, o |-> [path |-> "none"], st |-> [Status |-> "none"]]

PingIdle == probe = NoProbe /\ probes = 0

\* No settings row has been read.
NoSettings == [err |-> FALSE, read |-> FALSE, MaxConcurrentPings |-> 0]

\* The Pinger is owned by a caller other than the worker's main, which
\* constructed it with NewPinger(postgres, redis, MaxConcurrent) and called
\* Start.
MainIdle ==
  /\ mainPc = "none"
  /\ settings = NoSettings
  /\ maxConcurrent = MaxConcurrent

\* No dashboard request has been answered yet.
NoDashboard == [code |-> 0, n |-> 0, Status |-> [p \in Sites |-> "none"]]

DashIdle == dashResult = NoDashboard

\* The notifier processes; none of them has started and nothing was sent.
Notifiers == 1..NumNotifiers

NotifyIdle == notifier = [i \in Notifiers |-> "idle"] /\ sent = <<>>

\* The variables of frontVars other than the worker's.
FrontRestIdle == PingIdle /\ DashIdle /\ NotifyIdle

FrontIdle == FrontRestIdle /\ MainIdle

ExtIdle == apiResult = NoResponse /\ StoreIdle /\ FrontIdle

\* ------------------------------------------------------ redis.go, history
\* time.Time.Unix(): whole seconds, the fraction is dropped.
Unix(t) == t \div TicksPerSecond

\* time.Time.AddDate(0, 0, days), in clock ticks.
AddDate(t, days) == t + days * Day * TicksPerSecond

\* ZREMRANGEBYSCORE key lo hi: the members with lo <= score <= hi go; the
\* score of a member is its Timestamp.
ZRemRangeByScore(h, lo, hi) ==
  {m \in h : ~(lo <= m.Timestamp /\ m.Timestamp <= hi)}

\* ZRANGEBYSCORE key lo hi: the members with lo <= score <= hi.
ZRangeByScore(h, lo, hi) ==
  {m \in h : lo <= m.Timestamp /\ m.Timestamp <= hi}

\* ResponseTime of a probe result: 0 when offline, the average round trip
\* (one value in the model) when online.
ResponseTime(v) == IF v = "online" THEN 1 ELSE 0

\* RedisStore.AddDeviceHistory: ZADD of the JSON of {timestamp, status,
\* response_time} with score timestamp (a member equal to a stored one is
\* not added again), then ZREMRANGEBYSCORE 0 .. ninetyDaysAgo. r = "ok":
\* both succeed; "zadd": the first fails and nothing is stored; "prune": the
\* point is stored and the second call fails.
AddDeviceHistory(d, v, rt, r) ==
  LET m == [Timestamp |-> Unix(now), Status |-> v, ResponseTime |-> rt]
      added == IF r = "zadd" THEN history[d] ELSE history[d] \cup {m}
      ninetyDaysAgo == Unix(AddDate(now, -HardRetentionDays))
  IN history' = [history EXCEPT ![d] =
                   IF r = "ok" THEN ZRemRangeByScore(added, 0, ninetyDaysAgo)
                   ELSE added]

\* ------------------------------------------------------- redis.go, status
\* 10*time.Minute in clock ticks.
TTLTicks == StatusTTL * TicksPerSecond

\* Mutant of SetDeviceStatus: an existing entry is kept (SET ... NX).
SetDeviceStatusKeepFirst(d, v, ok) ==
  LET put == ok /\ statusKey[d] = "none" IN
  /\ statusKey' = IF put THEN [statusKey EXCEPT ![d] = v] ELSE statusKey
  /\ statusExp' = IF put THEN [statusExp EXCEPT ![d] = now + TTLTicks] ELSE statusExp
  /\ allDeviceStatus' = IF put THEN [allDeviceStatus EXCEPT ![d] = v]
                        ELSE allDeviceStatus
  /\ devSetAt' = IF put THEN [devSetAt EXCEPT ![d] = now] ELSE devSetAt

\* RedisStore.SetDeviceStatus: one pipeline with SET device:status:<id> (TTL
\* 10 minutes) and HSET all_device_status <id> (a hash field has no TTL);
\* ok: the pipeline succeeds.
SetDeviceStatus(d, v, ok) ==
  /\ statusKey' = IF ok THEN [statusKey EXCEPT ![d] = v] ELSE statusKey
  /\ statusExp' = IF ok THEN [statusExp EXCEPT ![d] = now + TTLTicks] ELSE statusExp
  /\ allDeviceStatus' = IF ok THEN [allDeviceStatus EXCEPT ![d] = v]
                        ELSE allDeviceStatus
  /\ devSetAt' = IF ok THEN [devSetAt EXCEPT ![d] = now] ELSE devSetAt

\* RedisStore.SetPropertyStatus: SET property:status:<id> (TTL 10 minutes)
\* and HSET all_property_status <id>.
SetPropertyStatus(p, st, ok) ==
  /\ propertyKey' = IF ok THEN [propertyKey EXCEPT ![p] = st] ELSE propertyKey
  /\ propertyExp' = IF ok THEN [propertyExp EXCEPT ![p] = now + TTLTicks]
                    ELSE propertyExp
  /\ allPropertyStatus' = IF ok THEN [allPropertyStatus EXCEPT ![p] = st]
                          ELSE allPropertyStatus
  /\ propSetAt' = IF ok THEN [propSetAt EXCEPT ![p] = now] ELSE propSetAt

\* ------------------------------------------------------------ SpecAgg
\* Device lists of one property: ids 1..n, any criticality flags.
AggDeviceLists ==
  UNION {{[i \in 1..n |-> [ID |-> i, IsCritical |-> i \in C]]
          : C \in SUBSET (1..n)} : n \in 0..MaxSiteDevices}

\* The scheduler before its first cycle.
NoCycleYet ==
  /\ ctxDone = FALSE /\ stopClosed = FALSE
  /\ tickPending = FALSE /\ cycles = 0 /\ fanOuts = 0
  /\ devices = <<>> /\ spawned = 0
  /\ task = [d \in Devices |-> [pc |-> "idle", Status |-> "none"]]
  /\ sem = 0 /\ wg = 0 /\ remaining = {}
  /\ allDeviceStatus = [d \in Devices |-> "none"]
  /\ historyLen = [d \in Devices |-> 0]
  /\ propertyKey = [p \in Sites |-> NoPropertyStatus]
  /\ written = {} /\ failed = {}
  /\ inFlightAtCancel = {} /\ drained = {} /\ faults = 0

\* Start has been called and waits in its select.
SchedIdle == pc = "select" /\ NoCycleYet

InitAgg ==
  /\ SchedIdle
  /\ ExtIdle
  /\ TTLIdle
  /\ HistIdle
  /\ aggInput \in AggDeviceLists
  /\ statusKey \in [1..MaxSiteDevices -> {"none", "online", "offline"}]
  /\ aggFail \in SUBSET (1..Len(aggInput))
  /\ \A d \in (1..MaxSiteDevices) \ (1..Len(aggInput)) : statusKey[d] = "none"
  /\ aggResult = NoResult

\* One call ComputePropertyStatus(ctx, propertyID, aggInput) against the store.
CallCompute ==
  /\ aggResult = NoResult
  /\ aggResult' = ComputePropertyStatus(aggInput, statusKey, aggFail)
  /\ UNCHANGED <<schedVars, statusKey, aggInput, aggFail, frontVars, extVars>>

NextAgg == CallCompute

SpecAgg == InitAgg /\ [][NextAgg]_vars

\* ------------------------------------------------------------ pinger.go
Returned == pc \in {"returnedNil", "returnedErr"}

\* The ticker of Start exists from time.NewTicker to the deferred
\* ticker.Stop(), while the process lives.
TickerRunning == pc \notin {"notStarted", "returnedNil", "returnedErr", "killed"}

\* Devices whose goroutine holds a semaphore slot (between sem <- and <-sem).
Holders == {d \in Devices : task[d].pc \in {"ping", "setStatus", "addHistory", "release"}}

\* Mutant of SemHasRoom: the send never blocks.
SemUnbounded(n) == TRUE

\* sem := make(chan struct{}, p.maxConcurrent): a send succeeds while the
\* buffer has room.
SemHasRoom(n) == n < maxConcurrent

\* Mutant of WaitGroupDone: the aggregation does not wait for the tasks.
WaitGroupSkipped(n) == TRUE

\* wg.Wait() returns once the counter is zero.
WaitGroupDone(n) == n = 0

\* Mutant of AfterSetDeviceStatus: a failed status write probes again.
AfterSetDeviceStatusRetry(ok) == IF ok THEN "addHistory" ELSE "ping"

\* The goroutine's next step after SetDeviceStatus returned: the error is
\* logged and the history append follows in both cases.
AfterSetDeviceStatus(ok) == "addHistory"

\* A redis call made with context ctx: it fails when ctx is already cancelled
\* and may fail transiently otherwise (at most MaxFaults times in a run).
StoreOutcomes(cancelled) ==
  IF cancelled THEN {FALSE}
  ELSE IF faults < MaxFaults THEN {TRUE, FALSE} ELSE {TRUE}

\* The devices of the snapshot, ascending, as ListActiveDevices returns them.
RECURSIVE SortedSeq(_)
SortedSeq(S) ==
  IF S = {} THEN <<>>
  ELSE LET m == CHOOSE x \in S : \A y \in S : x <= y
       IN <<m>> \o SortedSeq(S \ {m})

\* devicesByProperty[p]: the snapshot's devices of property p, in order.
RECURSIVE DevicesOfProperty(_, _)
DevicesOfProperty(ds, p) ==
  IF ds = <<>> THEN <<>>
  ELSE LET rest == DevicesOfProperty(Tail(ds), p)
       IN IF PropertyID(Head(ds)) = p
          THEN <<[ID |-> Head(ds), IsCritical |-> IsCritical(Head(ds))]>> \o rest
          ELSE rest

Init ==
  /\ SchedIdle
  /\ ExtIdle
  /\ TTLIdle
  /\ HistIdle
  /\ statusKey = [d \in Devices |-> "none"]
  /\ aggInput = <<>> /\ aggFail = {} /\ aggResult = NoResult

\* ticker.C delivers a tick; the channel buffers one tick, further ticks are
\* dropped while it is full.
Tick ==
  /\ TickerRunning
  /\ ~tickPending
  /\ cycles < MaxCycles
  /\ tickPending' = TRUE
  /\ UNCHANGED <<pc, ctxDone, stopClosed, cycles, fanOuts, devices, spawned,
                 task, sem, wg, remaining, allDeviceStatus, historyLen,
                 propertyKey, written, failed, inFlightAtCancel, drained,
                 faults, statusKey, otherVars>>

\* What a cancellation signal finds in flight.
NoteInFlight ==
  /\ inFlightAtCancel' = inFlightAtCancel \cup Holders
  /\ drained' = drained \cup {w \in written : w[2] \in Holders /\ w[1] \in {"status", "history"}}

\* Pinger.Stop: close(p.stopChan).
Stop ==
  /\ ~Returned
  /\ ~stopClosed
  /\ stopClosed' = TRUE
  /\ NoteInFlight
  /\ UNCHANGED <<pc, ctxDone, tickPending, cycles, fanOuts, devices, spawned,
                 task, sem, wg, remaining, allDeviceStatus, historyLen,
                 propertyKey, written, failed, faults, statusKey, otherVars>>

\* The caller cancels the context handed to Start.
CancelCtx ==
  /\ ~Returned
  /\ ~ctxDone
  /\ ctxDone' = TRUE
  /\ NoteInFlight
  /\ UNCHANGED <<pc, stopClosed, tickPending, cycles, fanOuts, devices,
                 spawned, task, sem, wg, remaining, allDeviceStatus,
                 historyLen, propertyKey, written, failed, faults, statusKey,
                 otherVars>>

\* Start's select, case <-ctx.Done(): p.wg.Wait() (never Add-ed) and return
\* ctx.Err().
SelectCtxDone ==
  /\ pc = "select"
  /\ ctxDone
  /\ pc' = "returnedErr"
  /\ UNCHANGED <<ctxDone, stopClosed, tickPending, cycles, fanOuts, devices,
                 spawned, task, sem, wg, remaining, allDeviceStatus,
                 historyLen, propertyKey, written, failed, inFlightAtCancel,
                 drained, faults, statusKey, otherVars>>

\* Mutant of StartReturnOnStop: Start reports the stop as an error.
StartReturnOnStopErr == "returnedErr"

\* What Start returns from case <-p.stopChan: nil.
StartReturnOnStop == "returnedNil"

\* Start's select, case <-p.stopChan: return nil.
SelectStop ==
  /\ pc = "select"
  /\ stopClosed
  /\ pc' = StartReturnOnStop
  /\ UNCHANGED <<ctxDone, stopClosed, tickPending, cycles, fanOuts, devices,
                 spawned, task, sem, wg, remaining, allDeviceStatus,
                 historyLen, propertyKey, written, failed, inFlightAtCancel,
                 drained, faults, statusKey, otherVars>>

\* Start's select, case <-ticker.C: call checkDevices. select picks any ready
\* case, so this one can be taken while ctx.Done() or stopChan is ready too.
SelectTick ==
  /\ pc = "select"
  /\ tickPending
  /\ tickPending' = FALSE
  /\ cycles' = cycles + 1
  /\ pc' = "list"
  /\ UNCHANGED <<ctxDone, stopClosed, fanOuts, devices, spawned, task, sem, wg,
                 remaining, allDeviceStatus, historyLen, propertyKey, written,
                 failed, inFlightAtCancel, drained, faults, statusKey,
                 otherVars>>

\* checkDevices: ListActiveDevices fails (cancelled context or database
\* error); checkDevices returns the wrapped error to Start.
ListActiveDevicesFails ==
  /\ pc = "list"
  /\ pc' = "checkFailed"
  /\ UNCHANGED <<ctxDone, stopClosed, tickPending, cycles, fanOuts, devices,
                 spawned, task, sem, wg, remaining, allDeviceStatus,
                 historyLen, propertyKey, written, failed, inFlightAtCancel,
                 drained, faults, statusKey, otherVars>>

\* Mutant of AfterCheckDevicesError: Start returns the error of the cycle.
AfterCheckDevicesErrorReturn == "returnedErr"

\* Start, after checkDevices returned an error: log.Printf and the for loop
\* goes back to the select.
AfterCheckDevicesError == "select"

\* Start logs "Error checking devices" and loops.
LogCheckError ==
  /\ pc = "checkFailed"
  /\ pc' = AfterCheckDevicesError
  /\ UNCHANGED <<ctxDone, stopClosed, tickPending, cycles, fanOuts, devices,
                 spawned, task, sem, wg, remaining, allDeviceStatus,
                 historyLen, propertyKey, written, failed, inFlightAtCancel,
                 drained, faults, statusKey, otherVars>>

\* checkDevices: ListActiveDevices returns no active device: return nil.
ListActiveDevicesEmpty ==
  /\ pc = "list"
  /\ ~ctxDone
  /\ pc' = "select"
  /\ UNCHANGED <<ctxDone, stopClosed, tickPending, cycles, fanOuts, devices,
                 spawned, task, sem, wg, remaining, allDeviceStatus, historyLen,
                 propertyKey, written, failed, inFlightAtCancel, drained,
                 faults, statusKey, otherVars>>

\* checkDevices: ListActiveDevices returns the active devices S; the
\* semaphore, the WaitGroup and devicesByProperty are created.
ListActiveDevices(S) ==
  /\ pc = "list"
  /\ ~ctxDone
  /\ S # {}
  /\ fanOuts < MaxFanOuts
  /\ fanOuts' = fanOuts + 1
  /\ devices' = SortedSeq(S)
  /\ spawned' = 0
  /\ sem' = 0
  /\ wg' = 0
  /\ task' = [d \in Devices |-> [pc |-> "idle", Status |-> "none"]]
  /\ written' = {} /\ failed' = {}
  /\ pc' = "spawn"
  /\ UNCHANGED <<ctxDone, stopClosed, tickPending, cycles, remaining,
                 allDeviceStatus, historyLen, propertyKey, inFlightAtCancel,
                 drained, faults, statusKey, otherVars>>

\* One iteration of the fan-out loop: wg.Add(1); go func(d) {...}(device).
Spawn ==
  /\ pc = "spawn"
  /\ spawned < Len(devices)
  /\ wg' = wg + 1
  /\ task' = [task EXCEPT ![devices[spawned + 1]].pc = "select"]
  /\ spawned' = spawned + 1
  /\ pc' = IF spawned + 1 = Len(devices) THEN "wait" ELSE "spawn"
  /\ UNCHANGED <<ctxDone, stopClosed, tickPending, cycles, fanOuts, devices,
                 sem, remaining, allDeviceStatus, historyLen, propertyKey,
                 written, failed, inFlightAtCancel, drained, faults,
                 statusKey, otherVars>>

\* Goroutine's select, case <-ctx.Done(): return (deferred wg.Done()).
TaskCancelled(d) ==
  /\ task[d].pc = "select"
  /\ ctxDone
  /\ task' = [task EXCEPT ![d].pc = "done"]
  /\ wg' = wg - 1
  /\ UNCHANGED <<pc, ctxDone, stopClosed, tickPending, cycles, fanOuts,
                 devices, spawned, sem, remaining, allDeviceStatus,
                 historyLen, propertyKey, written, failed, inFlightAtCancel,
                 drained, faults, statusKey, otherVars>>

\* Goroutine's select, case sem <- struct{}{}.
TaskAcquire(d) ==
  /\ task[d].pc = "select"
  /\ SemHasRoom(sem)
  /\ sem' = sem + 1
  /\ task' = [task EXCEPT ![d].pc = "ping"]
  /\ UNCHANGED <<pc, ctxDone, stopClosed, tickPending, cycles, fanOuts,
                 devices, spawned, wg, remaining, allDeviceStatus, historyLen,
                 propertyKey, written, failed, inFlightAtCancel, drained,
                 faults, statusKey, otherVars>>

\* status := p.pingDevice(ctx, &d): online or offline, never an error; the
\* probe does not look at ctx.
TaskPing(d, v) ==
  /\ task[d].pc = "ping"
  /\ task' = [task EXCEPT ![d] = [pc |-> "setStatus", Status |-> v]]
  /\ UNCHANGED <<pc, ctxDone, stopClosed, tickPending, cycles, fanOuts,
                 devices, spawned, sem, wg, remaining, allDeviceStatus,
                 historyLen, propertyKey, written, failed, inFlightAtCancel,
                 drained, faults, statusKey, otherVars>>

\* Bookkeeping of the store calls of one step: whether the write reached the
\* store (stored), whether the call returned an error (err), and whether a
\* read failed (readFailed).
NoteCall(kind, id, stored, err, readFailed) ==
  /\ written' = IF stored THEN written \cup {<<kind, id>>} ELSE written
  /\ failed' = IF err THEN failed \cup {<<kind, id>>} ELSE failed
  /\ faults' = IF ~ctxDone /\ (err \/ readFailed) THEN faults + 1 ELSE faults
  /\ drained' = IF stored /\ kind \in {"status", "history"} /\ id \in inFlightAtCancel
                THEN drained \cup {<<kind, id>>} ELSE drained

\* p.redis.SetDeviceStatus(ctx, status): SET device:status:<id> and HSET
\* all_device_status in one pipeline; an error is logged.
TaskSetDeviceStatus(d, ok) ==
  /\ task[d].pc = "setStatus"
  /\ ok \in StoreOutcomes(ctxDone)
  /\ SetDeviceStatus(d, task[d].Status, ok)
  /\ NoteCall("status", d, ok, ~ok, FALSE)
  /\ task' = [task EXCEPT ![d].pc = AfterSetDeviceStatus(ok)]
  /\ UNCHANGED <<pc, ctxDone, stopClosed, tickPending, cycles, fanOuts,
                 devices, spawned, sem, wg, remaining, historyLen,
                 propertyKey, inFlightAtCancel, aggVars, frontVars, apiResult, now,
                 gateVars, lookup, writes, histVars, propertyExp,
                 allPropertyStatus, propSetAt>>

\* RedisStore.AddDeviceHistory makes two calls: ZADD of the new point, then
\* ZREMRANGEBYSCORE of the points older than 90 days. "ok": both succeed;
\* "zadd": the first fails and nothing is stored; "prune": the point is
\* stored and the second call fails.
HistoryOutcomes(cancelled) ==
  IF cancelled THEN {"zadd"}
  ELSE IF faults < MaxFaults THEN {"ok", "zadd", "prune"} ELSE {"ok"}

\* p.redis.AddDeviceHistory(ctx, d.ID, ...); an error is logged. The points
\* of the model are younger than 90 days, so the pruning removes none.
TaskAddDeviceHistory(d, r) ==
  /\ task[d].pc = "addHistory"
  /\ r \in HistoryOutcomes(ctxDone)
  /\ historyLen' = IF r # "zadd" THEN [historyLen EXCEPT ![d] = @ + 1] ELSE historyLen
  /\ AddDeviceHistory(d, task[d].Status, ResponseTime(task[d].Status), r)
  /\ NoteCall("history", d, r # "zadd", r # "ok", FALSE)
  /\ task' = [task EXCEPT ![d].pc = "release"]
  /\ UNCHANGED <<pc, ctxDone, stopClosed, tickPending, cycles, fanOuts, devices,
                 spawned, sem, wg, remaining, allDeviceStatus, propertyKey,
                 inFlightAtCancel, statusKey, aggVars, frontVars, apiResult, now,
                 gateVars, ttlVars, lookup, writes, retentionDays, histOp,
                 appends>>

\* Mutant of SemAfterRelease: the slot is not given back.
SemAfterReleaseLeak(n) == n

\* defer func() { <-sem }(): one token leaves the channel.
SemAfterRelease(n) == n - 1

\* The goroutine returns: deferred <-sem, then deferred wg.Done().
TaskReturn(d) ==
  /\ task[d].pc = "release"
  /\ sem' = SemAfterRelease(sem)
  /\ wg' = wg - 1
  /\ task' = [task EXCEPT ![d].pc = "done"]
  /\ UNCHANGED <<pc, ctxDone, stopClosed, tickPending, cycles, fanOuts,
                 devices, spawned, remaining, allDeviceStatus, historyLen,
                 propertyKey, written, failed, inFlightAtCancel, drained,
                 faults, statusKey, otherVars>>

\* Mutant of DevicesByPropertyKeys: only the first device's property.
DevicesByPropertyFirstKey(ds) == {PropertyID(ds[1])}

\* The keys of devicesByProperty: the properties of the snapshot's devices.
DevicesByPropertyKeys(ds) == {PropertyID(ds[i]) : i \in 1..Len(ds)}

\* wg.Wait() returns; the aggregation loop starts over devicesByProperty.
WaitReturns ==
  /\ pc = "wait"
  /\ WaitGroupDone(wg)
  /\ pc' = "aggregate"
  /\ remaining' = DevicesByPropertyKeys(devices)
  /\ UNCHANGED <<ctxDone, stopClosed, tickPending, cycles, fanOuts, devices,
                 spawned, task, sem, wg, allDeviceStatus, historyLen,
                 propertyKey, written, failed, inFlightAtCancel, drained,
                 faults, statusKey, otherVars>>

\* Mutant of AfterAggregate: a failed SetPropertyStatus ends the loop.
AfterAggregateAbort(rem, p, ok) == IF ok THEN rem \ {p} ELSE {}

\* The properties left to visit after the iteration for p: a failed
\* SetPropertyStatus is logged and the loop goes on.
AfterAggregate(rem, p, ok) == rem \ {p}

\* One iteration of the aggregation loop (map order is arbitrary):
\* ComputePropertyStatus, then SetPropertyStatus; an error is logged.
\* F are the devices whose status lookup fails.
Aggregate(p, F, ok) ==
  /\ pc = "aggregate"
  /\ p \in remaining
  /\ ok \in StoreOutcomes(ctxDone)
  /\ LET devs == DevicesOfProperty(devices, p)
         ids == {devs[i].ID : i \in 1..Len(devs)}
     IN /\ F \subseteq ids
        /\ ctxDone => F = ids
        /\ (~ctxDone /\ (faults >= MaxFaults \/ ~ok)) => F = {}
        /\ SetPropertyStatus(p, ComputePropertyStatus(devs, statusKey, F).st, ok)
  /\ NoteCall("property", p, ok, ~ok, F # {})
  /\ remaining' = AfterAggregate(remaining, p, ok)
  /\ UNCHANGED <<pc, ctxDone, stopClosed, tickPending, cycles, fanOuts,
                 devices, spawned, task, sem, wg, allDeviceStatus, historyLen,
                 inFlightAtCancel, statusKey, aggVars, frontVars, apiResult, now,
                 gateVars, lookup, writes, histVars, statusExp, devSetAt>>

\* checkDevices returns nil to Start's loop.
CheckDevicesReturns ==
  /\ pc = "aggregate"
  /\ remaining = {}
  /\ pc' = "select"
  /\ UNCHANGED <<ctxDone, stopClosed, tickPending, cycles, fanOuts, devices,
                 spawned, task, sem, wg, remaining, allDeviceStatus,
                 historyLen, propertyKey, written, failed, inFlightAtCancel,
                 drained, faults, statusKey, otherVars>>

Next ==
  \/ Tick
  \/ Stop
  \/ CancelCtx
  \/ SelectCtxDone
  \/ SelectStop
  \/ SelectTick
  \/ ListActiveDevicesFails
  \/ LogCheckError
  \/ ListActiveDevicesEmpty
  \/ \E S \in SUBSET Devices : ListActiveDevices(S)
  \/ Spawn
  \/ \E d \in Devices : TaskCancelled(d)
  \/ \E d \in Devices : TaskAcquire(d)
  \/ \E d \in Devices, v \in Verdicts : TaskPing(d, v)
  \/ \E d \in Devices, ok \in BOOLEAN : TaskSetDeviceStatus(d, ok)
  \/ \E d \in Devices, r \in {"ok", "zadd", "prune"} : TaskAddDeviceHistory(d, r)
  \/ \E d \in Devices : TaskReturn(d)
  \/ WaitReturns
  \/ \E p \in Sites, F \in SUBSET Devices, ok \in BOOLEAN : Aggregate(p, F, ok)
  \/ CheckDevicesReturns

Spec == Init /\ [][Next]_vars

\* The devices and the properties of the cycle's snapshot.
SnapshotDevices == {devices[i] : i \in 1..Len(devices)}
SnapshotSites == {PropertyID(d) : d \in SnapshotDevices}

\* ------------------------------------------------------------ SpecLive
\* The scheduler under Stop() and cancellation, with the scheduling the Go
\* runtime and the callees give. The store calls of this specification fail
\* only by the cancelled context, and each device has one probe verdict (the
\* steps of a task after pingDevice do not look at the verdict).
LiveVerdict(d) == IF IsCritical(d) THEN "offline" ELSE "online"

NextLive ==
  \/ Tick
  \/ Stop
  \/ CancelCtx
  \/ SelectCtxDone
  \/ SelectStop
  \/ SelectTick
  \/ ListActiveDevicesFails
  \/ LogCheckError
  \/ ListActiveDevicesEmpty
  \/ \E S \in SUBSET Devices : ListActiveDevices(S)
  \/ Spawn
  \/ \E d \in Devices : TaskCancelled(d)
  \/ \E d \in Devices : TaskAcquire(d)
  \/ \E d \in Devices : TaskPing(d, LiveVerdict(d))
  \/ \E d \in Devices : TaskSetDeviceStatus(d, ~ctxDone)
  \/ \E d \in Devices : TaskAddDeviceHistory(d, IF ctxDone THEN "zadd" ELSE "ok")
  \/ \E d \in Devices : TaskReturn(d)
  \/ WaitReturns
  \/ \E p \in Sites :
       Aggregate(p, IF ctxDone
                    THEN {d \in SnapshotDevices : PropertyID(d) = p} ELSE {},
                 ~ctxDone)
  \/ CheckDevicesReturns

\* The steps of the Start goroutine in its cycle.
StartStep ==
  \/ SelectTick
  \/ ListActiveDevicesFails
  \/ LogCheckError
  \/ ListActiveDevicesEmpty
  \/ \E S \in SUBSET Devices : ListActiveDevices(S)
  \/ Spawn
  \/ WaitReturns
  \/ \E p \in Sites, F \in SUBSET Devices, ok \in BOOLEAN : Aggregate(p, F, ok)
  \/ CheckDevicesReturns

\* The steps of the probe goroutine of device d.
TaskStep(d) ==
  \/ TaskCancelled(d)
  \/ TaskAcquire(d)
  \/ \E v \in Verdicts : TaskPing(d, v)
  \/ \E ok \in BOOLEAN : TaskSetDeviceStatus(d, ok)
  \/ \E r \in {"ok", "zadd", "prune"} : TaskAddDeviceHistory(d, r)
  \/ TaskReturn(d)

\* A goroutine that can take a step takes one (every probe, store call and
\* catalog query returns), and a select whose stopChan or ctx.Done() case
\* stays ready takes it in the end, the choice among ready cases being
\* random.
FairnessLive ==
  /\ WF_vars(SelectCtxDone)
  /\ WF_vars(SelectStop)
  /\ WF_vars(StartStep)
  /\ \A d \in Devices : WF_vars(TaskStep(d))

SpecLive == Init /\ [][NextLive]_vars /\ FairnessLive

\* ------------------------------------------------------------ SpecCycle
\* The scheduler while it is neither stopped nor cancelled: the cycles with
\* their transient store faults.
NextCycle ==
  \/ Tick
  \/ SelectTick
  \/ ListActiveDevicesFails
  \/ LogCheckError
  \/ ListActiveDevicesEmpty
  \/ \E S \in SUBSET Devices : ListActiveDevices(S)
  \/ Spawn
  \/ \E d \in Devices : TaskAcquire(d)
  \/ \E d \in Devices, v \in Verdicts : TaskPing(d, v)
  \/ \E d \in Devices, ok \in BOOLEAN : TaskSetDeviceStatus(d, ok)
  \/ \E d \in Devices, r \in {"ok", "zadd", "prune"} : TaskAddDeviceHistory(d, r)
  \/ \E d \in Devices : TaskReturn(d)
  \/ WaitReturns
  \/ \E p \in Sites, F \in SUBSET Devices, ok \in BOOLEAN : Aggregate(p, F, ok)
  \/ CheckDevicesReturns

\* A goroutine that can take a step takes one: every probe, store call and
\* catalog query returns.
FairnessCycle ==
  /\ WF_vars(StartStep)
  /\ \A d \in Devices : WF_vars(TaskStep(d))

SpecCycle == Init /\ [][NextCycle]_vars /\ FairnessCycle

\* ------------------------------------------------------------ SpecApi
\* PostgresStore.ListDevicesForProperty: every device row of the property,
\* active or not (the query has no "active" condition).
ListDevicesForProperty(p) == DevicesOfProperty(SortedSeq(Devices), p)

\* A cycle of the scheduler that has passed its barrier: the snapshot is the
\* set S of active devices, each of them has been probed and its status and
\* history point stored; an inactive device has a status left from the time
\* it was active, or none.
InitApi ==
  /\ ExtIdle
  /\ propertyExp = [p \in Sites |-> Nil]
  /\ allPropertyStatus = [p \in Sites |-> NoPropertyStatus]
  /\ propSetAt = [p \in Sites |-> Nil]
  /\ aggInput = <<>> /\ aggFail = {} /\ aggResult = NoResult
  /\ ctxDone = FALSE /\ stopClosed = FALSE /\ tickPending = FALSE
  /\ cycles = 1 /\ fanOuts = 1 /\ sem = 0 /\ wg = 0
  /\ failed = {} /\ inFlightAtCancel = {} /\ drained = {} /\ faults = 0
  /\ propertyKey = [p \in Sites |-> NoPropertyStatus]
  /\ pc = "aggregate"
  /\ \E S \in (SUBSET Devices) \ {{}} :
       /\ devices = SortedSeq(S)
       /\ spawned = Cardinality(S)
       /\ remaining = {PropertyID(d) : d \in S}
       /\ written = {<<k, d>> : k \in {"status", "history"}, d \in S}
       /\ statusKey \in [Devices -> {"none", "online", "offline"}]
       /\ \A d \in S : statusKey[d] # "none"
       /\ task = [d \in Devices |->
                    IF d \in S THEN [pc |-> "done", Status |-> statusKey[d]]
                    ELSE [pc |-> "idle", Status |-> "none"]]
  /\ allDeviceStatus = statusKey
  /\ statusExp = [d \in Devices |-> IF statusKey[d] # "none" THEN TTLTicks ELSE Nil]
  /\ devSetAt = [d \in Devices |-> IF statusKey[d] # "none" THEN 0 ELSE Nil]
  /\ historyLen = [d \in Devices |-> IF statusKey[d] # "none" THEN 1 ELSE 0]
  /\ history = [d \in Devices |->
                  IF statusKey[d] # "none"
                  THEN {[Timestamp |-> 0, Status |-> statusKey[d],
                         ResponseTime |-> ResponseTime(statusKey[d])]}
                  ELSE {}]
  /\ retentionDays = HardRetentionDays /\ histOp = NoHistOp /\ appends = 0

\* GET /properties/:id/status: ListDevicesForProperty, then
\* ComputePropertyStatus on that list; both with context.Background().
\* dbOk: the catalog query succeeds; F: the devices whose status lookup
\* fails.
HandleGetPropertyStatus(p, dbOk, F) ==
  /\ LET devs == ListDevicesForProperty(p)
         ids == {devs[i].ID : i \in 1..Len(devs)}
     IN /\ F \subseteq ids
        /\ (~dbOk \/ F # {}) => faults < MaxFaults
        /\ ~dbOk => F = {}
        /\ apiResult' =
             IF dbOk
             THEN [code |-> 200, p |-> p,
                   st |-> ComputePropertyStatus(devs, statusKey, F).st]
             ELSE [code |-> 500, p |-> p, st |-> NoPropertyStatus]
        /\ faults' = IF ~dbOk \/ F # {} THEN faults + 1 ELSE faults
  /\ UNCHANGED <<pc, ctxDone, stopClosed, tickPending, cycles, fanOuts,
                 devices, spawned, task, sem, wg, remaining, allDeviceStatus,
                 historyLen, propertyKey, written, failed, inFlightAtCancel,
                 drained, statusKey, aggVars, frontVars, storeVars>>

NextApi ==
  \/ \E p \in Sites, F \in SUBSET Devices, ok \in BOOLEAN : Aggregate(p, F, ok)
  \/ CheckDevicesReturns
  \/ \E p \in Sites, dbOk \in BOOLEAN, F \in SUBSET Devices :
       HandleGetPropertyStatus(p, dbOk, F)

SpecApi == InitApi /\ [][NextApi]_vars

\* ------------------------------------------------------------ SpecGate
\* A key with a TTL is gone once its expiry instant is reached.
Expired(exp, t) == exp # Nil /\ t >= exp

\* The clock advances by dt ticks, up to the instant limit; the status keys
\* whose TTL has run out by then are removed by redis.
Advance(dt, limit) ==
  /\ now + dt <= limit
  /\ now' = now + dt
  /\ statusKey' = [d \in DOMAIN statusKey |->
                     IF d \in Devices /\ Expired(statusExp[d], now + dt)
                     THEN "none" ELSE statusKey[d]]
  /\ statusExp' = [d \in Devices |->
                     IF Expired(statusExp[d], now + dt) THEN Nil ELSE statusExp[d]]
  /\ propertyKey' = [p \in Sites |->
                       IF Expired(propertyExp[p], now + dt)
                       THEN NoPropertyStatus ELSE propertyKey[p]]
  /\ propertyExp' = [p \in Sites |->
                       IF Expired(propertyExp[p], now + dt) THEN Nil
                       ELSE propertyExp[p]]
  /\ UNCHANGED <<pc, ctxDone, stopClosed, tickPending, cycles, fanOuts,
                 devices, spawned, task, sem, wg, remaining, allDeviceStatus,
                 historyLen, written, failed, inFlightAtCancel, drained,
                 faults, aggVars, frontVars, apiResult, gateVars, allPropertyStatus,
                 devSetAt, propSetAt, lookup, writes, histVars>>

\* RedisStore.SetLastNotification: HSET key eventType time.Now().Unix();
\* ok: the command succeeds.
SetLastNotification(p, e, ok) ==
  /\ lastNotification' = IF ok THEN [lastNotification EXCEPT ![<<p, e>>] = Unix(now)]
                         ELSE lastNotification
  /\ setAt' = IF ok THEN [setAt EXCEPT ![<<p, e>>] = now] ELSE setAt
  /\ gateOp' = [op |-> "SetLastNotification", p |-> p, e |-> e, cd |-> 0,
                ok |-> ok, err |-> ~ok]
  /\ UNCHANGED <<schedVars, statusKey, aggVars, frontVars, apiResult, now, ttlVars,
                 lookup, writes, histVars>>

\* Mutant of Elapsed: the comparison is strict.
ElapsedStrict(rec, t, cooldownSeconds) ==
  t - rec * TicksPerSecond > cooldownSeconds * TicksPerSecond

\* elapsed := time.Since(time.Unix(ts, 0));
\* elapsed.Seconds() >= float64(cooldownSeconds).
Elapsed(rec, t, cooldownSeconds) ==
  t - rec * TicksPerSecond >= cooldownSeconds * TicksPerSecond

\* The bool ShouldNotify returns when GetLastNotification succeeds: a missing
\* field gives the zero time and true.
ShouldNotifyResult(rec, t, cooldownSeconds) ==
  IF rec = Nil THEN TRUE ELSE Elapsed(rec, t, cooldownSeconds)

\* Mutant of RecordsAfterShouldNotify: a positive answer starts the window.
RecordsAfterShouldNotifyStamped(recs, q, t, allowed) ==
  IF allowed THEN [recs EXCEPT ![q] = Unix(t)] ELSE recs

\* The notification hashes after a ShouldNotify call: the call only reads.
RecordsAfterShouldNotify(recs, q, t, allowed) == recs

\* RedisStore.ShouldNotify(ctx, p, e, cd); readOk: the HGET succeeds (a
\* missing field is not an error).
ShouldNotify(p, e, cd, readOk) ==
  LET allowed == readOk /\ ShouldNotifyResult(lastNotification[<<p, e>>], now, cd)
  IN /\ gateOp' = [op |-> "ShouldNotify", p |-> p, e |-> e, cd |-> cd,
                   ok |-> allowed, err |-> ~readOk]
     /\ lastNotification' = RecordsAfterShouldNotify(lastNotification, <<p, e>>,
                                                     now, allowed)
     /\ UNCHANGED <<schedVars, statusKey, aggVars, frontVars, apiResult, now, setAt,
                    ttlVars, lookup, writes, histVars>>

InitGate ==
  /\ SchedIdle
  /\ ExtIdle
  /\ TTLIdle
  /\ HistIdle
  /\ statusKey = [d \in Devices |-> "none"]
  /\ aggInput = <<>> /\ aggFail = {} /\ aggResult = NoResult

NextGate ==
  \/ Advance(1, MaxClock)
  \/ \E q \in Pairs, ok \in BOOLEAN : SetLastNotification(q[1], q[2], ok)
  \/ \E q \in Pairs, cd \in 0..MaxCooldown, readOk \in BOOLEAN :
       ShouldNotify(q[1], q[2], cd, readOk)

SpecGate == InitGate /\ [][NextGate]_vars

\* A step that is a ShouldNotify call returning without error.
GateAnswered ==
  gateOp' # gateOp /\ gateOp'.op = "ShouldNotify" /\ ~gateOp'.err

\* C14: ShouldNotify answers true when the pair has no record, and otherwise
\* true iff the time elapsed since the recorded timestamp is at least
\* cooldownSeconds; so it is false at the instant of a SetLastNotification
\* under a positive cooldown and true once cooldownSeconds have passed since
\* that call.
C14_CooldownGate ==
  [][GateAnswered
       => LET q == <<gateOp'.p, gateOp'.e>>
              cd == gateOp'.cd
              rec == lastNotification[q]
          IN /\ rec = Nil => gateOp'.ok
             /\ rec # Nil
                  => (gateOp'.ok <=> now - rec * TicksPerSecond >= cd * TicksPerSecond)
             /\ (setAt[q] = now /\ cd > 0) => ~gateOp'.ok
             /\ (setAt[q] # Nil /\ now - setAt[q] >= cd * TicksPerSecond)
                  => gateOp'.ok]_vars

\* C14 witness: a positive cooldown has just elapsed since the pair's
\* notification was recorded and ShouldNotify answers true.
C14_Witness ==
  /\ gateOp.op = "ShouldNotify" /\ gateOp.ok /\ ~gateOp.err /\ gateOp.cd > 0
  /\ setAt[<<gateOp.p, gateOp.e>>] # Nil
  /\ now - setAt[<<gateOp.p, gateOp.e>>] = gateOp.cd * TicksPerSecond

\* C15: a ShouldNotify call changes no notification record and no pair's
\* answer; a record changes only in a SetLastNotification call, and only the
\* record of the pair it was called for.
C15_GateOnlyReads ==
  [][/\ (gateOp'.op = "ShouldNotify" /\ now' = now)
          => /\ lastNotification' = lastNotification
             /\ \A q \in Pairs, cd \in 0..MaxCooldown :
                  ShouldNotifyResult(lastNotification'[q], now', cd)
                    = ShouldNotifyResult(lastNotification[q], now, cd)
     /\ \A q \in Pairs :
          lastNotification'[q] # lastNotification[q]
            => /\ gateOp'.op = "SetLastNotification"
               /\ q = <<gateOp'.p, gateOp'.e>>]_vars

\* C15 witness: ShouldNotify has answered true for a pair that still has no
\* record while another pair has one.
C15_Witness ==
  /\ gateOp.op = "ShouldNotify" /\ gateOp.ok
  /\ lastNotification[<<gateOp.p, gateOp.e>>] = Nil
  /\ \E q \in Pairs : lastNotification[q] # Nil

\* ------------------------------------------------------------ SpecTTL
\* The scheduler variables a status-store call leaves alone.
schedRest == <<pc, ctxDone, stopClosed, tickPending, cycles, fanOuts, devices,
               spawned, task, sem, wg, remaining, historyLen, written, failed,
               inFlightAtCancel, drained, faults>>

\* A caller stores the status v of device d.
CallSetDeviceStatus(d, v, ok) ==
  /\ writes < MaxWrites
  /\ writes' = writes + 1
  /\ SetDeviceStatus(d, v, ok)
  /\ lookup' = [op |-> "SetDeviceStatus", id |-> d, at |-> now, found |-> {},
                st |-> v, ok |-> ok]
  /\ UNCHANGED <<schedRest, propertyKey, propertyExp, allPropertyStatus,
                 propSetAt, aggVars, frontVars, apiResult, now, gateVars,
                 histVars>>

\* A caller stores the rollup of property p with verdict c.
CallSetPropertyStatus(p, c, ok) ==
  /\ writes < MaxWrites
  /\ writes' = writes + 1
  /\ SetPropertyStatus(p, [NoPropertyStatus EXCEPT !.Status = c], ok)
  /\ lookup' = [op |-> "SetPropertyStatus", id |-> p, at |-> now, found |-> {},
                st |-> c, ok |-> ok]
  /\ UNCHANGED <<schedRest, statusKey, statusExp, allDeviceStatus, devSetAt,
                 aggVars, frontVars, apiResult, now, gateVars, histVars>>

\* RedisStore.GetDeviceStatus: GET device:status:<id>; redis.Nil is
\* reported as "device status not found".
CallGetDeviceStatus(d) ==
  /\ lookup' = [op |-> "GetDeviceStatus", id |-> d, at |-> now,
                found |-> {x \in {d} : statusKey[x] # "none"},
                st |-> statusKey[d], ok |-> TRUE]
  /\ UNCHANGED <<schedVars, statusKey, aggVars, frontVars, apiResult, now, gateVars,
                 ttlVars, writes, histVars>>

\* RedisStore.GetAllDeviceStatuses: HGETALL all_device_status.
CallGetAllDeviceStatuses ==
  /\ lookup' = [op |-> "GetAllDeviceStatuses", id |-> 0, at |-> now,
                found |-> {x \in Devices : allDeviceStatus[x] # "none"},
                st |-> "none", ok |-> TRUE]
  /\ UNCHANGED <<schedVars, statusKey, aggVars, frontVars, apiResult, now, gateVars,
                 ttlVars, writes, histVars>>

\* RedisStore.GetPropertyStatus: GET property:status:<id>.
CallGetPropertyStatus(p) ==
  /\ lookup' = [op |-> "GetPropertyStatus", id |-> p, at |-> now,
                found |-> {x \in {p} : propertyKey[x].Status # "none"},
                st |-> propertyKey[p].Status, ok |-> TRUE]
  /\ UNCHANGED <<schedVars, statusKey, aggVars, frontVars, apiResult, now, gateVars,
                 ttlVars, writes, histVars>>

\* RedisStore.GetAllPropertyStatuses: HGETALL all_property_status.
CallGetAllPropertyStatuses ==
  /\ lookup' = [op |-> "GetAllPropertyStatuses", id |-> 0, at |-> now,
                found |-> {x \in Sites : allPropertyStatus[x].Status # "none"},
                st |-> "none", ok |-> TRUE]
  /\ UNCHANGED <<schedVars, statusKey, aggVars, frontVars, apiResult, now, gateVars,
                 ttlVars, writes, histVars>>

InitTTL ==
  /\ SchedIdle
  /\ ExtIdle
  /\ TTLIdle
  /\ HistIdle
  /\ statusKey = [d \in Devices |-> "none"]
  /\ aggInput = <<>> /\ aggFail = {} /\ aggResult = NoResult

\* The clock of SpecTTL moves in steps of half a TTL, up to MaxTTLs TTLs.
NextTTL ==
  \/ Advance(TTLTicks \div 2, MaxTTLs * TTLTicks)
  \/ \E d \in Devices, v \in Verdicts, ok \in BOOLEAN : CallSetDeviceStatus(d, v, ok)
  \/ \E p \in Sites, c \in {"green", "red"}, ok \in BOOLEAN :
       CallSetPropertyStatus(p, c, ok)
  \/ \E d \in Devices : CallGetDeviceStatus(d)
  \/ CallGetAllDeviceStatuses
  \/ \E p \in Sites : CallGetPropertyStatus(p)
  \/ CallGetAllPropertyStatuses

SpecTTL == InitTTL /\ [][NextTTL]_vars

\* The ids a lookup of the given kind must report absent at instant t: their
\* status was last written at least a TTL ago.
StaleIds(op, t) ==
  IF op \in {"GetDeviceStatus", "GetAllDeviceStatuses"}
  THEN {d \in Devices : devSetAt[d] # Nil /\ t - devSetAt[d] >= TTLTicks}
  ELSE {p \in Sites : propSetAt[p] # Nil /\ t - propSetAt[p] >= TTLTicks}

\* C16: a device or property status written and not refreshed for the TTL
\* reads as absent, through the point lookups and through the bulk lookups.
C16_UnrefreshedStatusReadsAbsent ==
  lookup.op # "none" => lookup.found \cap StaleIds(lookup.op, lookup.at) = {}

\* A step that is a SetDeviceStatus call.
StatusSetStep == writes' # writes /\ lookup'.op = "SetDeviceStatus"

\* C23: a successful SetDeviceStatus(s) makes s the entry of its device,
\* whatever the entry was, and leaves the entries of the other devices as
\* they were; GetDeviceStatus returns the entry of its device, which is the
\* last status set and not found once the TTL has passed since that write
\* or when none was set; between the calls an entry changes only by
\* expiring.
C23_StatusOverwriteAndLookup ==
  [][/\ (StatusSetStep /\ lookup'.ok)
          => /\ statusKey'[lookup'.id] = lookup'.st
             /\ statusExp'[lookup'.id] = now + TTLTicks
             /\ \A x \in Devices \ {lookup'.id} :
                  statusKey'[x] = statusKey[x] /\ statusExp'[x] = statusExp[x]
     /\ (lookup' # lookup /\ lookup'.op = "GetDeviceStatus")
          => LET d == lookup'.id
                 live == devSetAt[d] # Nil /\ now - devSetAt[d] < TTLTicks
             IN /\ lookup'.found = (IF live THEN {d} ELSE {})
                /\ lookup'.st = (IF live THEN statusKey[d] ELSE "none")
     /\ \A d \in Devices :
          statusKey'[d] # statusKey[d]
            => \/ StatusSetStep /\ lookup'.ok /\ lookup'.id = d
               \/ /\ now' > now
                  /\ statusKey'[d] = "none"
                  /\ now' - devSetAt[d] >= TTLTicks]_vars

\* C23 witness: after two status writes, the status offline set for a
\* device after the clock had moved is returned by a lookup made before it
\* expires.
C23_Witness ==
  /\ lookup.op = "GetDeviceStatus" /\ lookup.found = {lookup.id}
  /\ writes = 2
  /\ lookup.at > 0
  /\ devSetAt[lookup.id] = lookup.at
  /\ lookup.st = "offline"

\* ------------------------------------------------------------ SpecDash
\* PostgresStore.ListProperties: every property row.
ListProperties == Sites

\* The status handleDashboard shows for a property: the entry of the hash
\* all_property_status, and "green" when the hash has no entry for it.
DashboardStatus(all, p) ==
  IF all[p].Status # "none" THEN all[p].Status ELSE "green"

\* GET /dashboard: ListProperties, then GetAllPropertyStatuses, both with
\* context.Background(); o says which of the two calls fails, if any.
HandleDashboard(o) ==
  /\ dashResult.n < MaxRequests
  /\ o # "ok" => faults < MaxFaults
  /\ faults' = IF o # "ok" THEN faults + 1 ELSE faults
  /\ dashResult' =
       IF o = "ok"
       THEN [code |-> 200, n |-> dashResult.n + 1,
             Status |-> [p \in ListProperties |->
                           DashboardStatus(allPropertyStatus, p)]]
       ELSE [code |-> 500, n |-> dashResult.n + 1,
             Status |-> NoDashboard.Status]
  /\ UNCHANGED <<pc, ctxDone, stopClosed, tickPending, cycles, fanOuts,
                 devices, spawned, task, sem, wg, remaining, allDeviceStatus,
                 historyLen, propertyKey, written, failed, inFlightAtCancel,
                 drained, statusKey, aggVars, pingVars, mainVars, notifyVars,
                 extVars>>

\* The dashboard and the on-demand status beside the aggregation loop of a
\* cycle that has passed its barrier, while the clock runs up to one TTL.
NextDash ==
  \/ Advance(TTLTicks \div 2, TTLTicks)
  \/ \E p \in Sites : Aggregate(p, {}, TRUE)
  \/ CheckDevicesReturns
  \/ \E p \in Sites : HandleGetPropertyStatus(p, TRUE, {})
  \/ \E o \in {"ok", "db", "redis"} : HandleDashboard(o)

SpecDash == InitApi /\ [][NextDash]_vars

\* The verdict handleGetPropertyStatus returns for property p at the
\* current catalog and store state.
OnDemandVerdict(p) ==
  ComputePropertyStatus(ListDevicesForProperty(p), statusKey, {}).st.Status

\* C29: every status a dashboard response shows is the verdict the on-demand
\* property status returns at the same catalog and store state.
C29_DashboardEqualsOnDemand ==
  [][(dashResult'.n # dashResult.n /\ dashResult'.code = 200)
       => \A p \in Sites : dashResult'.Status[p] = OnDemandVerdict(p)]_vars

\* ------------------------------------------------------------ SpecNotify
\* Two notifier processes that call the gate for one (site, event type)
\* pair in the order ShouldNotify, send, SetLastNotification, with the
\* cooldown of NotifyCooldown seconds.
NotifiedPair == <<1, "down">>
NotifyCooldown == MaxCooldown

\* Notifier i calls ShouldNotify; a true answer takes it to the send, a
\* false answer or an error ends its attempt.
NotifierShouldNotify(i, readOk) ==
  /\ notifier[i] = "idle"
  /\ Len(sent) < MaxSends
  /\ LET allowed == readOk /\ ShouldNotifyResult(lastNotification[NotifiedPair],
                                                 now, NotifyCooldown)
     IN /\ gateOp' = [op |-> "ShouldNotify", p |-> NotifiedPair[1],
                      e |-> NotifiedPair[2], cd |-> NotifyCooldown,
                      ok |-> allowed, err |-> ~readOk]
        /\ lastNotification' = RecordsAfterShouldNotify(lastNotification,
                                                        NotifiedPair, now, allowed)
        /\ notifier' = [notifier EXCEPT ![i] = IF allowed THEN "send" ELSE "idle"]
  /\ UNCHANGED <<schedVars, statusKey, aggVars, pingVars, mainVars, dashVars,
                 sent, apiResult, now, setAt, ttlVars, lookup, writes,
                 histVars>>

\* Notifier i sends its notification.
NotifierSend(i) ==
  /\ notifier[i] = "send"
  /\ sent' = Append(sent, now)
  /\ notifier' = [notifier EXCEPT ![i] = "record"]
  /\ UNCHANGED <<schedVars, statusKey, aggVars, pingVars, mainVars, dashVars,
                 extVars>>

\* Notifier i records the notification it has sent: SetLastNotification.
NotifierSetLastNotification(i, ok) ==
  /\ notifier[i] = "record"
  /\ lastNotification' = IF ok THEN [lastNotification EXCEPT
                                       ![NotifiedPair] = Unix(now)]
                         ELSE lastNotification
  /\ setAt' = IF ok THEN [setAt EXCEPT ![NotifiedPair] = now] ELSE setAt
  /\ gateOp' = [op |-> "SetLastNotification", p |-> NotifiedPair[1],
                e |-> NotifiedPair[2], cd |-> 0, ok |-> ok, err |-> ~ok]
  /\ notifier' = [notifier EXCEPT ![i] = "idle"]
  /\ UNCHANGED <<schedVars, statusKey, aggVars, pingVars, mainVars, dashVars,
                 sent, apiResult, now, ttlVars, lookup, writes, histVars>>

NextNotify ==
  \/ Advance(1, MaxClock)
  \/ \E i \in Notifiers, readOk \in BOOLEAN : NotifierShouldNotify(i, readOk)
  \/ \E i \in Notifiers : NotifierSend(i)
  \/ \E i \in Notifiers, ok \in BOOLEAN : NotifierSetLastNotification(i, ok)

SpecNotify == InitGate /\ [][NextNotify]_vars

\* C30: any two notifications sent for the pair are at least the cooldown
\* apart, under every interleaving of the two notifiers.
C30_OneSendPerCooldownWindow ==
  \A i, j \in DOMAIN sent :
    i < j => sent[j] - sent[i] >= NotifyCooldown * TicksPerSecond

\* ------------------------------------------------------------ SpecHist
\* The members of a sorted set in ascending score order.
RECURSIVE SortByScore(_)
SortByScore(S) ==
  IF S = {} THEN <<>>
  ELSE LET m == CHOOSE x \in S : \A y \in S : x.Timestamp <= y.Timestamp
       IN <<m>> \o SortByScore(S \ {m})

\* A probe task appends the point of device d with verdict v.
CallAddDeviceHistory(d, v, r) ==
  /\ appends < MaxAppends
  /\ appends' = appends + 1
  /\ AddDeviceHistory(d, v, ResponseTime(v), r)
  /\ histOp' = [op |-> "AddDeviceHistory", id |-> d, start |-> 0,
                end |-> 0, ok |-> r = "ok", result |-> <<>>]
  /\ UNCHANGED <<schedVars, statusKey, aggVars, frontVars, apiResult, now, gateVars,
                 ttlVars, lookup, writes, retentionDays>>

\* RedisStore.CleanupOldHistory(ctx, retentionDays): KEYS device:history:*,
\* then ZREMRANGEBYSCORE key 0 cutoff for each key; ok: the calls succeed.
CleanupOldHistory(ok) ==
  LET cutoff == Unix(AddDate(now, -retentionDays))
  IN /\ history' = IF ok
                    THEN [d \in Devices |-> ZRemRangeByScore(history[d], 0, cutoff)]
                    ELSE history
     /\ histOp' = [op |-> "CleanupOldHistory", id |-> 0, start |-> 0,
                   end |-> 0, ok |-> ok, result |-> <<>>]
     /\ UNCHANGED <<schedVars, statusKey, aggVars, frontVars, apiResult, now, gateVars,
                    ttlVars, lookup, writes, retentionDays, appends>>

\* RedisStore.GetDeviceHistory(ctx, d, startTime, endTime): ZRANGEBYSCORE
\* with Min startTime.Unix() and Max endTime.Unix().
CallGetDeviceHistory(d, startTime, endTime) ==
  /\ histOp' = [op |-> "GetDeviceHistory", id |-> d, start |-> startTime,
                end |-> endTime, ok |-> TRUE,
                result |-> SortByScore(ZRangeByScore(history[d], Unix(startTime),
                                                     Unix(endTime)))]
  /\ UNCHANGED <<schedVars, statusKey, aggVars, frontVars, apiResult, now, gateVars,
                 ttlVars, lookup, writes, history, retentionDays, appends>>

\* The retention settings tried: below, at and above the default.
RetentionChoices ==
  {HardRetentionDays - StepDays, HardRetentionDays, HardRetentionDays + StepDays}

InitHist ==
  /\ SchedIdle
  /\ ExtIdle
  /\ TTLIdle
  /\ statusKey = [d \in Devices |-> "none"]
  /\ aggInput = <<>> /\ aggFail = {} /\ aggResult = NoResult
  /\ history = [d \in Devices |-> {}]
  /\ retentionDays \in RetentionChoices
  /\ histOp = NoHistOp
  /\ appends = 0

\* The clock of SpecHist moves in steps of StepDays days.
StepTicks == StepDays * Day * TicksPerSecond

\* The startTime and endTime values of the range queries: the start of the
\* run, a fraction of a second later, the end of the run.
QueryInstants == {0, 1, MaxSteps * StepTicks}

NextHist ==
  \/ Advance(StepTicks, MaxSteps * StepTicks)
  \/ \E d \in Devices, v \in Verdicts, r \in {"ok", "zadd", "prune"} :
       CallAddDeviceHistory(d, v, r)
  \/ \E ok \in BOOLEAN : CleanupOldHistory(ok)
  \/ \E d \in Devices, startTime \in QueryInstants, endTime \in QueryInstants :
       CallGetDeviceHistory(d, startTime, endTime)

SpecHist == InitHist /\ [][NextHist]_vars

\* Age of a stored point at instant t, in seconds, by its timestamp.
Age(m, t) == Unix(t) - m.Timestamp

\* C17: with history_retention_days = N no operation removes a point younger
\* than N days, appends running along with the pruning included, and after
\* a successful CleanupOldHistory(N) no point older than N days remains.
C17_PruneKeepsRetentionWindow ==
  [][/\ \A d \in Devices : \A m \in history[d] \ history'[d] :
          Age(m, now) >= retentionDays * Day
     /\ (histOp' # histOp /\ histOp'.op = "CleanupOldHistory" /\ histOp'.ok)
          => \A d \in Devices : \A m \in history'[d] :
               Age(m, now) <= retentionDays * Day]_vars

\* The elements of a sequence.
Range(q) == {q[i] : i \in 1..Len(q)}

\* C18: a successful AddDeviceHistory adds one new point to its device's
\* history and changes or removes no point inside the retention window or of
\* another device; GetDeviceHistory(id, start, end) returns, in ascending
\* time order, exactly the stored points of id with start <= t <= end.
C18_HistoryAppendOnlyRangeQuery ==
  [][/\ (histOp' # histOp /\ histOp'.op = "AddDeviceHistory" /\ histOp'.ok)
          => LET d == histOp'.id IN
             /\ Cardinality(history'[d] \ history[d]) = 1
             /\ \A m \in history[d] :
                  Age(m, now) < retentionDays * Day => m \in history'[d]
             /\ \A x \in Devices \ {d} : history'[x] = history[x]
     /\ (histOp' # histOp /\ histOp'.op = "GetDeviceHistory")
          => LET res == histOp'.result IN
             /\ Range(res) = {m \in history[histOp'.id] :
                               /\ histOp'.start <= m.Timestamp * TicksPerSecond
                               /\ m.Timestamp * TicksPerSecond <= histOp'.end}
             /\ Len(res) = Cardinality(Range(res))
             /\ \A i, j \in 1..Len(res) :
                  i < j => res[i].Timestamp <= res[j].Timestamp]_vars

\* C13: with no store or catalog fault, the status the on-demand handler
\* returns for a site and the rollup the scheduled cycle has stored for the
\* same site, at the same catalog and store state, agree in verdict, counts
\* and critical flag.
C13_OnDemandEqualsScheduled ==
  (/\ apiResult.code = 200
   /\ <<"property", apiResult.p>> \in written
   /\ faults = 0)
    => apiResult.st = propertyKey[apiResult.p]

\* ------------------------------------------------------------ SpecPing
\* What the probing library hands back to pingDevice: NewPinger fails
\* ("create"), Run fails ("run"), or Run succeeds and Statistics() gives the
\* packets sent and received and the average round trip ("stats"). AvgRtt is
\* in units of 1/RttPerMs ms.
ProbeOutcomes ==
  {[path |-> "create"], [path |-> "run"]}
    \cup {[path |-> "stats", PacketsSent |-> s, PacketsRecv |-> r, AvgRtt |-> t]
          : s \in 0..MaxRetries, r \in 0..MaxRetries, t \in 0..MaxRtt}

\* time.Duration.Milliseconds(): whole milliseconds, the fraction is dropped.
Milliseconds(t) == t \div RttPerMs

\* Mutant of Replied: a packet sent counts as a reply.
RepliedSent(stats) == stats.PacketsSent > 0

\* if stats.PacketsRecv > 0.
Replied(stats) == stats.PacketsRecv > 0

\* Pinger.pingDevice: the DeviceStatus returned (without LastCheck) for
\* device d when the library behaves as o. ResponseTime keeps its zero value
\* on every path that does not set it.
pingDevice(d, o) ==
  IF o.path = "create"
  THEN [DeviceID |-> d, Status |-> "offline", ResponseTime |-> 0,
        Message |-> "Failed to create pinger: err"]
  ELSE IF o.path = "run"
  THEN [DeviceID |-> d, Status |-> "offline", ResponseTime |-> 0,
        Message |-> "Ping failed: err"]
  ELSE IF Replied(o)
  THEN [DeviceID |-> d, Status |-> "online",
        ResponseTime |-> Milliseconds(o.AvgRtt), Message |-> "OK"]
  ELSE [DeviceID |-> d, Status |-> "offline", ResponseTime |-> 0,
        Message |-> "No packets received (n sent)"]

\* One call p.pingDevice(ctx, &d): the probe and nothing else.
CallPingDevice(d, o) ==
  /\ probes < MaxProbes
  /\ probes' = probes + 1
  /\ probe' = [DeviceID |-> d, o |-> o, st |-> pingDevice(d, o)]
  /\ UNCHANGED <<schedVars, statusKey, aggVars, mainVars, dashVars, notifyVars,
                 extVars>>

InitPing ==
  /\ SchedIdle
  /\ ExtIdle
  /\ TTLIdle
  /\ HistIdle
  /\ statusKey = [d \in Devices |-> "none"]
  /\ aggInput = <<>> /\ aggFail = {} /\ aggResult = NoResult

NextPing == \E d \in Devices, o \in ProbeOutcomes : CallPingDevice(d, o)

SpecPing == InitPing /\ [][NextPing]_vars

\* The entries of the status, history and notification store.
StoreContent == <<statusKey, statusExp, allDeviceStatus, history, historyLen,
                  propertyKey, propertyExp, allPropertyStatus,
                  lastNotification>>

\* C21: every pingDevice call returns a DeviceStatus for its device whose
\* verdict is online or offline, online iff the probe ran and at least one
\* reply was received; an offline result has latency 0 and a non-empty
\* message; the call changes no store entry.
C21_ProbeFailureIsOffline ==
  [][probes' # probes
       => LET o == probe'.o
              st == probe'.st
          IN /\ st.DeviceID = probe'.DeviceID
             /\ st.Status \in Verdicts
             /\ st.Status = "online" <=> (o.path = "stats" /\ o.PacketsRecv >= 1)
             /\ st.Status = "offline" => (st.ResponseTime = 0 /\ st.Message # "")
             /\ UNCHANGED StoreContent]_vars

\* C21 witness: the probe ran, packets were sent, none came back, and the
\* result is offline.
C21_Witness ==
  /\ probe.o.path = "stats" /\ probe.o.PacketsSent > 0 /\ probe.o.PacketsRecv = 0
  /\ probe.st.Status = "offline"

\* ------------------------------------------------------------ SpecMain
\* maxConcurrentPings := 150 in the worker's main.
DefaultMaxConcurrentPings == 150

\* What postgres.GetSettings returns to main: an error, or the settings row
\* (max_concurrent_pings is an INT column the settings API writes as given),
\* or the defaults when the table is empty.
SettingsOutcomes ==
  {[err |-> TRUE, read |-> TRUE, MaxConcurrentPings |-> 0]}
    \cup {[err |-> FALSE, read |-> TRUE, MaxConcurrentPings |-> n]
          : n \in (-1..MaxConcurrent) \cup {DefaultMaxConcurrentPings}}

\* main's local maxConcurrentPings after the settings were read:
\* if err == nil && settings.MaxConcurrentPings > 0 { ... }.
MaxConcurrentPings(s) ==
  IF ~s.err /\ s.MaxConcurrentPings > 0 THEN s.MaxConcurrentPings
  ELSE DefaultMaxConcurrentPings

\* The variables of frontVars other than the worker's.
frontRest == <<pingVars, dashVars, notifyVars>>

\* main: POSTGRES_URL, NewPostgresStore, NewRedisStore; a missing variable
\* or a failed connection ends the process with log.Fatal.
MainConnect(ok) ==
  /\ mainPc = "connect"
  /\ mainPc' = IF ok THEN "getSettings" ELSE "fatal"
  /\ UNCHANGED <<schedVars, statusKey, aggVars, frontRest, settings,
                 maxConcurrent, extVars>>

\* main: settings, err := postgres.GetSettings(ctx) and the test on it.
MainGetSettings(s) ==
  /\ mainPc = "getSettings"
  /\ settings' = s
  /\ mainPc' = "newPinger"
  /\ UNCHANGED <<schedVars, statusKey, aggVars, frontRest, maxConcurrent,
                 extVars>>

\* main: pinger := monitor.NewPinger(postgres, redis, maxConcurrentPings);
\* NewPinger stores the bound as it is given.
MainNewPinger ==
  /\ mainPc = "newPinger"
  /\ maxConcurrent' = MaxConcurrentPings(settings)
  /\ mainPc' = "goStart"
  /\ UNCHANGED <<schedVars, statusKey, aggVars, frontRest, settings, extVars>>

\* main: go func() { pinger.Start(ctx) ... }() and signal.Notify; Start
\* creates its ticker and enters the select.
MainGoStart ==
  /\ mainPc = "goStart"
  /\ pc = "notStarted"
  /\ pc' = "select"
  /\ mainPc' = "select"
  /\ UNCHANGED <<ctxDone, stopClosed, tickPending, cycles, fanOuts, devices,
                 spawned, task, sem, wg, remaining, allDeviceStatus,
                 historyLen, propertyKey, written, failed, inFlightAtCancel,
                 drained, faults, statusKey, aggVars, frontRest, settings,
                 maxConcurrent, extVars>>

\* main's select, case <-quit: "Received shutdown signal", pinger.Stop().
MainQuit ==
  /\ mainPc = "select"
  /\ stopClosed' = TRUE
  /\ NoteInFlight
  /\ mainPc' = "stopped"
  /\ UNCHANGED <<pc, ctxDone, tickPending, cycles, fanOuts, devices, spawned,
                 task, sem, wg, remaining, allDeviceStatus, historyLen,
                 propertyKey, written, failed, faults, statusKey, aggVars,
                 frontRest, settings, maxConcurrent, extVars>>

\* The process ends and takes every goroutine with it, wherever it stands
\* ("killed"), unless it had returned before.
ProcessEnds ==
  /\ pc' = IF pc \in {"notStarted", "returnedNil", "returnedErr"} THEN pc
           ELSE "killed"
  /\ task' = [d \in Devices |->
                IF task[d].pc \in {"idle", "done"} THEN task[d]
                ELSE [task[d] EXCEPT !.pc = "killed"]]

\* main logs "Worker stopped" and returns: the process ends.
MainExit ==
  /\ mainPc = "stopped"
  /\ mainPc' = "exited"
  /\ ProcessEnds
  /\ UNCHANGED <<ctxDone, stopClosed, tickPending, cycles, fanOuts, devices,
                 spawned, sem, wg, remaining, allDeviceStatus, historyLen,
                 propertyKey, written, failed, inFlightAtCancel, drained,
                 faults, statusKey, aggVars, frontRest, settings,
                 maxConcurrent, extVars>>

InitMain ==
  /\ pc = "notStarted"
  /\ NoCycleYet
  /\ apiResult = NoResponse
  /\ StoreIdle
  /\ FrontRestIdle
  /\ TTLIdle
  /\ HistIdle
  /\ statusKey = [d \in Devices |-> "none"]
  /\ aggInput = <<>> /\ aggFail = {} /\ aggResult = NoResult
  /\ mainPc = "connect"
  /\ settings = NoSettings
  /\ maxConcurrent = 0

\* The steps of main, of the Start goroutine and of the probe tasks. main
\* hands Start context.Background(), which is never cancelled; the store
\* calls of this specification succeed.
NextMain ==
  \/ \E ok \in BOOLEAN : MainConnect(ok)
  \/ \E s \in SettingsOutcomes : MainGetSettings(s)
  \/ MainNewPinger
  \/ MainGoStart
  \/ MainQuit
  \/ MainExit
  \/ Tick
  \/ SelectStop
  \/ SelectTick
  \/ ListActiveDevicesFails
  \/ LogCheckError
  \/ ListActiveDevicesEmpty
  \/ \E S \in SUBSET Devices : ListActiveDevices(S)
  \/ Spawn
  \/ \E d \in Devices : TaskAcquire(d)
  \/ \E d \in Devices, v \in Verdicts : TaskPing(d, v)
  \/ \E d \in Devices : TaskSetDeviceStatus(d, TRUE)
  \/ \E d \in Devices : TaskAddDeviceHistory(d, "ok")
  \/ \E d \in Devices : TaskReturn(d)
  \/ WaitReturns
  \/ \E p \in Sites : Aggregate(p, {}, TRUE)
  \/ CheckDevicesReturns

SpecMain == InitMain /\ [][NextMain]_vars

\* C22: when the settings row read at startup holds a concurrency bound
\* <= 0, the worker ends at startup: no Pinger is constructed and Start is
\* never called.
C22_InvalidBoundFailsFast ==
  (settings.read /\ ~settings.err /\ settings.MaxConcurrentPings <= 0)
    => /\ mainPc \in {"newPinger", "fatal"}
       /\ pc = "notStarted"
       /\ cycles = 0

\* C28: when the worker process has exited after a shutdown signal,
\* Pinger.Start has returned and no device task was cut off before its
\* status and history writes and the site rollup of its cycle.
C28_ExitWaitsForStart ==
  mainPc = "exited"
    => /\ pc \in {"returnedNil", "returnedErr"}
       /\ \A d \in Devices : task[d].pc \in {"idle", "done"}

\* ------------------------------------------------------------ SpecStop
\* A caller that owns a Pinger and calls Start once and Stop any number of
\* times, before, during or after Start. The store calls of this
\* specification succeed and each device has one probe verdict.
\* go pinger.Start(ctx).
CallStart ==
  /\ mainPc = "none"
  /\ pc = "notStarted"
  /\ pc' = "select"
  /\ UNCHANGED <<ctxDone, stopClosed, tickPending, cycles, fanOuts, devices,
                 spawned, task, sem, wg, remaining, allDeviceStatus,
                 historyLen, propertyKey, written, failed, inFlightAtCancel,
                 drained, faults, statusKey, otherVars>>

\* pinger.Stop(): close(p.stopChan). Closing a channel that is closed
\* already panics ("close of closed channel"), and the panic of the calling
\* goroutine ends the process.
CallStop ==
  /\ mainPc = "none"
  /\ IF ~stopClosed
     THEN /\ stopClosed' = TRUE
          /\ NoteInFlight
          /\ UNCHANGED <<pc, task, mainPc>>
     ELSE /\ mainPc' = "panic"
          /\ ProcessEnds
          /\ UNCHANGED <<stopClosed, inFlightAtCancel, drained>>
  /\ UNCHANGED <<ctxDone, tickPending, cycles, fanOuts, devices, spawned, sem,
                 wg, remaining, allDeviceStatus, historyLen, propertyKey,
                 written, failed, faults, statusKey, aggVars, frontRest,
                 settings, maxConcurrent, extVars>>

InitStop ==
  /\ pc = "notStarted"
  /\ NoCycleYet
  /\ ExtIdle
  /\ TTLIdle
  /\ HistIdle
  /\ statusKey = [d \in Devices |-> "none"]
  /\ aggInput = <<>> /\ aggFail = {} /\ aggResult = NoResult

NextStop ==
  \/ CallStart
  \/ CallStop
  \/ Tick
  \/ SelectStop
  \/ SelectTick
  \/ ListActiveDevicesFails
  \/ LogCheckError
  \/ ListActiveDevicesEmpty
  \/ \E S \in SUBSET Devices : ListActiveDevices(S)
  \/ Spawn
  \/ \E d \in Devices : TaskAcquire(d)
  \/ \E d \in Devices : TaskPing(d, LiveVerdict(d))
  \/ \E d \in Devices : TaskSetDeviceStatus(d, TRUE)
  \/ \E d \in Devices : TaskAddDeviceHistory(d, "ok")
  \/ \E d \in Devices : TaskReturn(d)
  \/ WaitReturns
  \/ \E p \in Sites : Aggregate(p, {}, TRUE)
  \/ CheckDevicesReturns

SpecStop == InitStop /\ [][NextStop]_vars

InCycle == pc \in {"spawn", "wait", "aggregate"}
CallsMade == written \cup failed

Signalled == stopClosed \/ ctxDone

\* C24: Start returns only after Stop() or the cancellation of its context,
\* nil only after Stop() and the context's error only after the
\* cancellation; while neither has come a delivered tick is followed by a
\* cycle; once either has come Start returns in the end.
C24_RunsUntilCancelledThenReturns ==
  /\ [](pc = "returnedNil" => stopClosed)
  /\ [](pc = "returnedErr" => ctxDone)
  /\ (tickPending /\ ~Signalled) ~> (pc = "list" \/ Signalled)
  /\ Signalled ~> Returned

\* C24 witness: Start has returned nil after Stop() came while the tasks of
\* a cycle were probing, and the cycle ran to its end.
C24_Witness ==
  /\ pc = "returnedNil" /\ stopClosed /\ ~ctxDone
  /\ inFlightAtCancel # {}
  /\ \A d \in SnapshotDevices : task[d].pc = "done"

\* C1: at every instant of a probing cycle the number of probe tasks holding
\* a semaphore slot (pinging or writing status/history) is at most
\* maxConcurrent, however many devices are active.
C1_ProbesInFlightBounded == Cardinality(Holders) <= MaxConcurrent

\* C1 witness: more devices than slots, every slot taken, a task waiting.
C1_Witness ==
  /\ Len(devices) > MaxConcurrent
  /\ Cardinality(Holders) = MaxConcurrent
  /\ \E d \in Devices : task[d].pc = "select"

\* C3: no aggregation (ComputePropertyStatus, site-status write) starts before
\* every task spawned in the cycle has finished, its status write and history
\* append included.
C3_BarrierBeforeAggregation ==
  (pc = "aggregate" \/ (InCycle /\ \E p \in Sites : <<"property", p>> \in CallsMade))
    => /\ wg = 0
       /\ \A d \in SnapshotDevices :
            /\ task[d].pc = "done"
            /\ task[d].Status # "none"
                 => {<<"status", d>>, <<"history", d>>} \subseteq CallsMade

\* C3 witness: a rollup has been written in a cycle of at least two probed
\* devices.
C3_Witness ==
  /\ pc = "aggregate"
  /\ Len(devices) >= 2
  /\ \A d \in SnapshotDevices : <<"history", d>> \in written
  /\ \E p \in Sites : <<"property", p>> \in written

\* C4: when the scheduler is cancelled (Stop() or context cancellation), every
\* probe in flight at that moment completes and its status and history point
\* are in the store before Start returns (no store fault being injected).
C4_InFlightProbesDrained ==
  (Returned /\ faults = 0)
    => \A d \in inFlightAtCancel :
         {<<"status", d>>, <<"history", d>>} \subseteq drained

\* C5: once Stop() has been called or the context cancelled, Start's loop
\* does not call checkDevices again, even with a tick pending.
C5_NoCycleAfterCancel ==
  [][(stopClosed \/ ctxDone) => ~(pc = "select" /\ pc' = "list")]_vars

\* C10: in a cycle that is not cancelled, a failure of one endpoint's store
\* call or of one site's status write keeps no other endpoint from being
\* probed and written and no other site from being aggregated and written.
C10_FailuresIsolated ==
  (pc = "aggregate" /\ remaining = {} /\ ~ctxDone)
    => /\ \A d \in SnapshotDevices :
            /\ task[d].Status # "none"
            /\ <<"status", d>> \in CallsMade
            /\ <<"history", d>> \in CallsMade
            /\ (\A k \in {"status", "history"} : <<k, d>> \notin failed)
                 => /\ statusKey[d] = task[d].Status
                    /\ {<<"status", d>>, <<"history", d>>} \subseteq written
       /\ \A p \in SnapshotSites :
            /\ <<"property", p>> \in CallsMade
            /\ <<"property", p>> \notin failed => propertyKey[p].Status # "none"

\* C10 witness: a cycle of two sites ends with one failed store call and
\* every other call written.
C10_Witness ==
  /\ pc = "aggregate" /\ remaining = {} /\ ~ctxDone
  /\ Cardinality(SnapshotSites) >= 2
  /\ Cardinality(failed) = 1
  /\ Cardinality(written) = 2 * Len(devices) + Cardinality(SnapshotSites) - 1

\* The store entries and the probe tasks.
StoreAndTasks == <<task, statusKey, allDeviceStatus, historyLen, propertyKey,
                   written, failed>>

\* C11: when ListActiveDevices fails on a tick, the cycle makes no probe and
\* no store write, Start does not return but goes back to its select, and
\* the tick consumed next starts with the catalog fetch again.
C11_FetchFailureAbortsCycleOnly ==
  [][/\ (pc = "list" /\ pc' = "checkFailed") => UNCHANGED StoreAndTasks
     /\ pc = "checkFailed"
          => /\ UNCHANGED StoreAndTasks
             /\ pc' \in {"checkFailed", "select"}
     /\ (pc = "select" /\ tickPending /\ ~tickPending') => pc' = "list"]_vars

\* C11 witness: the fetch of the second cycle has failed after a first cycle
\* that wrote every status; Start has not returned.
C11_Witness ==
  /\ pc = "checkFailed" /\ cycles = 2 /\ fanOuts = 1
  /\ \A d \in SnapshotDevices : <<"status", d>> \in written

\* C12: a step of a cycle in which a store read or write fails transiently
\* leaves the stored current status of every endpoint and of every site at
\* its last-known value; in particular a failed status lookup during the
\* aggregation does not change the stored site status.
C12_LastKnownKeptOnStoreFailure ==
  [][faults' > faults
       => /\ statusKey' = statusKey
          /\ propertyKey' = propertyKey]_vars

\* The sites that have at least one device row in the catalog.
CatalogSites == {PropertyID(d) : d \in Devices}

CycleDone == pc = "aggregate" /\ remaining = {}

\* C19 as stated: when a cycle has run to its end, every site with at least
\* one endpoint in the catalog has been recomputed in that cycle and its
\* stored rollup overwritten.
C19_EveryCatalogSiteOverwritten ==
  CycleDone => \A p \in CatalogSites : <<"property", p>> \in written

\* C19 amended: when a cycle has run to its end, every site with at least
\* one active endpoint in the cycle's snapshot has been recomputed in that
\* cycle, and its stored rollup (point key and hash) holds the new value
\* unless the site's SetPropertyStatus call failed.
C19_SnapshotSitesRecomputed ==
  CycleDone
    => \A p \in SnapshotSites :
         /\ <<"property", p>> \in CallsMade
         /\ <<"property", p>> \notin failed
              => /\ <<"property", p>> \in written
                 /\ propertyKey[p].Status \in {"red", "yellow", "green"}
                 /\ propertyKey[p].TotalCount
                      = Cardinality({d \in SnapshotDevices : PropertyID(d) = p})
                 /\ allPropertyStatus[p] = propertyKey[p]

\* C19 witness: a cycle over some but not all sites of the catalog has ended
\* with every snapshot site's rollup written.
C19_Witness ==
  /\ CycleDone /\ ~ctxDone /\ failed = {}
  /\ SnapshotSites # CatalogSites
  /\ \A p \in SnapshotSites : <<"property", p>> \in written

\* Position of a probe goroutine in its body.
Rank(pos) ==
  CASE pos = "idle" -> 0 [] pos = "select" -> 1 [] pos = "ping" -> 2
    [] pos = "setStatus" -> 3 [] pos = "addHistory" -> 4
    [] pos = "release" -> 5 [] pos = "done" -> 6

\* The steps of a cycle: the catalog is fetched only at the start of a
\* cycle; a task only moves forward through probe, status upsert, history
\* append; an endpoint's status and history change only in its own task's
\* upsert and append step, one entry per step.
C20_TaskSteps ==
  /\ pc' = "list" => pc \in {"select", "list"}
  /\ pc # "list"
       => \A d \in Devices :
            /\ task'[d] # task[d] => Rank(task'[d].pc) > Rank(task[d].pc)
            /\ task'[d].Status # task[d].Status
                 => task[d].pc = "ping" /\ task'[d].pc = "setStatus"
            /\ (statusKey'[d] # statusKey[d] \/ allDeviceStatus'[d] # allDeviceStatus[d])
                 => task[d].pc = "setStatus" /\ task'[d].pc = "addHistory"
            /\ history'[d] # history[d]
                 => task[d].pc = "addHistory" /\ task'[d].pc = "release"
  /\ Cardinality({d \in Devices : task'[d] # task[d]}) <= 1

\* The store at the end of the fan-out of a cycle that was not cancelled:
\* every endpoint of the snapshot was probed and both its store calls made,
\* and each entry is what the endpoint's own task wrote, whatever the order
\* of the tasks.
C20_CycleEnd ==
  (pc = "aggregate" /\ ~ctxDone)
    => \A d \in Devices :
         IF d \in SnapshotDevices
         THEN /\ task[d].pc = "done" /\ task[d].Status \in Verdicts
              /\ {<<"status", d>>, <<"history", d>>} \subseteq CallsMade
              /\ statusKey[d] = IF <<"status", d>> \in written
                                THEN task[d].Status ELSE "none"
              /\ history[d] = IF <<"history", d>> \in written
                              THEN {[Timestamp |-> Unix(now),
                                     Status |-> task[d].Status,
                                     ResponseTime |-> ResponseTime(task[d].Status)]}
                              ELSE {}
         ELSE /\ task[d].pc = "idle"
              /\ statusKey[d] = "none" /\ history[d] = {}

C25_CyclesNeverOverlap ==
  [][/\ (pc' = "list" /\ pc # "list")
          => /\ pc = "select"
             /\ cycles' = cycles + 1
             /\ \A d \in Devices : task[d].pc \in {"idle", "done"}
             /\ sem = 0 /\ wg = 0
     /\ cycles' # cycles => (pc = "select" /\ pc' = "list")
     /\ (tickPending' /\ ~tickPending)
          => /\ pc' = pc /\ cycles' = cycles
             /\ task' = task /\ sem' = sem /\ wg' = wg
     /\ Cardinality(Holders') <= maxConcurrent']_vars

\* C25 witness: a tick is waiting in the channel while tasks of the running
\* cycle hold every semaphore slot.
C25_Witness ==
  /\ tickPending /\ pc = "wait"
  /\ Cardinality(Holders) = maxConcurrent
  /\ cycles < MaxCycles

\* C26: while the context is not cancelled, a task that holds a slot moves
\* on after its probe, its status write and its history write whatever they
\* returned, and gives the slot back when it ends; so every task waiting for
\* admission is admitted, every fan-out reaches the aggregation, and every
\* cycle that starts returns to Start's select.
C26_CycleCompletes ==
  /\ [][/\ \A d \in Devices :
            /\ (task[d].pc \in {"ping", "setStatus", "addHistory"}
                  /\ task'[d] # task[d])
                 => /\ Rank(task'[d].pc) = Rank(task[d].pc) + 1
                    /\ sem' = sem
            /\ (task[d].pc = "release" /\ task'[d] # task[d])
                 => /\ task'[d].pc = "done"
                    /\ sem' = sem - 1 /\ wg' = wg - 1
        /\ (pc = "wait" /\ pc' # "wait")
             => /\ pc' = "aggregate"
                /\ \A d \in SnapshotDevices : task[d].pc = "done"
        /\ (pc = "aggregate" /\ pc' # "aggregate")
             => pc' = "select" /\ remaining = {}]_vars
  /\ (pc \in {"list", "spawn", "wait", "aggregate"}) ~> (pc = "select")

\* C26 witness: a cycle over more devices than slots has returned to the
\* select although a status write and so a task's store call failed, one
\* probe having found its device offline.
C26_Witness ==
  /\ pc = "select" /\ fanOuts = 1
  /\ Len(devices) > maxConcurrent
  /\ \A d \in SnapshotDevices : task[d].pc = "done"
  /\ \E d \in SnapshotDevices : <<"status", d>> \in failed
  /\ \E d \in SnapshotDevices : task[d].Status = "offline"
  /\ sem = 0

\* --------------------------------------------- claims, aggregator (SpecAgg)
AggDone == aggResult # NoResult
AggN == Len(aggInput)
AggCriticalOff == \E i \in aggResult.off : aggInput[i].IsCritical

\* C2: for a non-empty device list the rollup is red iff every device is
\* counted unreachable or a critical one is; yellow iff some but not all are
\* and no critical one is; green iff all are counted reachable; exactly one
\* verdict results.
C2_RollupPolicy ==
  (AggDone /\ AggN > 0)
    => LET st == aggResult.st.Status IN
       /\ st \in {"red", "yellow", "green"}
       /\ st = "red" <=> (aggResult.off = 1..AggN \/ AggCriticalOff)
       /\ st = "yellow" <=> /\ aggResult.off # {}
                            /\ aggResult.off # 1..AggN
                            /\ ~AggCriticalOff
       /\ st = "green" <=> aggResult.on = 1..AggN

\* C2 witness: a yellow rollup with a critical device that is reachable.
C2_Witness ==
  /\ AggDone /\ AggN >= 3
  /\ aggResult.st.Status = "yellow"
  /\ \E i \in aggResult.on : aggInput[i].IsCritical

\* C6: a device is counted reachable iff a current status with verdict online
\* is on record for it; a device with no status on record is counted
\* unreachable.
C6_ReachableIffOnRecord ==
  AggDone
    => \A i \in 1..AggN :
         /\ i \in aggResult.on <=> statusKey[aggInput[i].ID] = "online"
         /\ statusKey[aggInput[i].ID] = "none" => i \in aggResult.off

\* C7: CriticalOffline is true iff a critical device is counted unreachable,
\* and then the rollup is red; with 4 devices, 1 critical: critical reachable
\* and one other unreachable gives yellow, 3, 1, false; critical unreachable
\* gives red with CriticalOffline whatever the other three.
C7_CriticalOffline ==
  AggDone
    => LET st == aggResult.st
           crit == {i \in 1..AggN : aggInput[i].IsCritical}
       IN /\ st.CriticalOffline <=> AggCriticalOff
          /\ AggCriticalOff => st.Status = "red"
          /\ (AggN = 4 /\ Cardinality(crit) = 1)
               => /\ (crit \subseteq aggResult.on /\ Cardinality(aggResult.off) = 1)
                       => /\ st.Status = "yellow"
                          /\ st.OnlineCount = 3 /\ st.OfflineCount = 1
                          /\ st.CriticalOffline = FALSE
                  /\ crit \subseteq aggResult.off
                       => st.Status = "red" /\ st.CriticalOffline = TRUE

\* C7 witness: 4 devices, the only critical one unreachable, the other three
\* online.
C7_Witness ==
  /\ AggDone /\ AggN = 4
  /\ \E c \in 1..4 :
       /\ \A i \in 1..4 : aggInput[i].IsCritical <=> i = c
       /\ aggResult.off = {c}
       /\ \A i \in (1..4) \ {c} : statusKey[i] = "online"

\* C8: OnlineCount + OfflineCount = TotalCount = number of devices passed in,
\* each device counted exactly once.
C8_CountsSumToTotal ==
  AggDone
    => LET st == aggResult.st IN
       /\ st.OnlineCount + st.OfflineCount = st.TotalCount
       /\ st.TotalCount = AggN
       /\ aggResult.on \cap aggResult.off = {}
       /\ aggResult.on \cup aggResult.off = 1..AggN
       /\ st.OnlineCount = Cardinality(aggResult.on)
       /\ st.OfflineCount = Cardinality(aggResult.off)

\* C8 witness: a list with online, offline and never-probed devices.
C8_Witness ==
  /\ AggDone /\ AggN >= 3
  /\ \E i, j, k \in 1..AggN :
       /\ statusKey[i] = "online" /\ statusKey[j] = "offline"
       /\ statusKey[k] = "none"
  /\ aggResult.st.OnlineCount >= 1 /\ aggResult.st.OfflineCount >= 2

\* C9: for zero devices the result is green with all counts 0 and
\* CriticalOffline false, and no status lookup is made.
C9_EmptySiteGreen ==
  (AggDone /\ AggN = 0)
    => /\ aggResult.st = [Status |-> "green", OnlineCount |-> 0,
                          OfflineCount |-> 0, TotalCount |-> 0,
                          CriticalOffline |-> FALSE]
       /\ aggResult.calls = 0

\* C9 witness: ComputePropertyStatus has returned for an empty device list.
C9_Witness == AggDone /\ AggN = 0 /\ aggResult.st.Status = "green"

====
